---- MODULE Spec2Model ----
(***************************************************************************)
(* Ingestion pipeline of mlb-fantasy-pipeline: the staging writer, the     *)
(* Transformer, the batch lifecycle tracker and the ingestYear(s)          *)
(* orchestrator, over a relational store with the keys and constraints of  *)
(* the migrations.  Every awaited SQL statement is one atomic step.        *)
(***************************************************************************)
EXTENDS Integers, Sequences, FiniteSets, TLC

(***************************************************************************)
(* Bounds of the model.                                                    *)
(***************************************************************************)
MaxRows == 3
MaxRuns == 2
MaxCalls == 3
MaxFaults == 1
MaxStat == 3
MaxLen == 3

(***************************************************************************)
(* Program constants.  The two page sizes are scaled down (500 and 1000 in *)
(* the source) so that a batch of MaxRows rows spans more than one page.   *)
(***************************************************************************)
TRANSFORM_BATCH_SIZE == 2
BATCH_SIZE == 2

\* SQL NULL / JavaScript undefined for a nullable text column
NULL == "<null>"
\* SQL NULL / JavaScript undefined for a nullable row counter or id
NullNum == -1
\* null / undefined for a string that the converters parse
NullStr == <<"<null>">>

(***************************************************************************)
(* Strings that the code parses are sequences of one-character strings.    *)
(***************************************************************************)
UpperChars ==
  <<"A","B","C","D","E","F","G","H","I","J","K","L","M",
    "N","O","P","Q","R","S","T","U","V","W","X","Y","Z">>
LowerChars ==
  <<"a","b","c","d","e","f","g","h","i","j","k","l","m",
    "n","o","p","q","r","s","t","u","v","w","x","y","z">>
Digits == <<"0","1","2","3","4","5","6","7","8","9">>
WhiteSpace == {" ", "\t"}

IsDigit(c) == \E i \in 1..10 : Digits[i] = c

toLowerCase(s) ==
  [i \in 1..Len(s) |->
     IF \E k \in 1..26 : UpperChars[k] = s[i]
     THEN LowerChars[CHOOSE k \in 1..26 : UpperChars[k] = s[i]]
     ELSE s[i]]

toUpperCase(s) ==
  [i \in 1..Len(s) |->
     IF \E k \in 1..26 : LowerChars[k] = s[i]
     THEN UpperChars[CHOOSE k \in 1..26 : LowerChars[k] = s[i]]
     ELSE s[i]]

RECURSIVE TrimLeft(_)
TrimLeft(s) ==
  IF s # <<>> /\ Head(s) \in WhiteSpace THEN TrimLeft(Tail(s)) ELSE s

RECURSIVE TrimRight(_)
TrimRight(s) ==
  IF s # <<>> /\ s[Len(s)] \in WhiteSpace
  THEN TrimRight(SubSeq(s, 1, Len(s) - 1)) ELSE s

trim(s) == TrimRight(TrimLeft(s))

RECURSIVE DigitPrefix(_, _)
\* value of the longest prefix of decimal digits of s, acc the value so far
DigitPrefix(s, acc) ==
  IF s # <<>> /\ IsDigit(Head(s))
  THEN DigitPrefix(Tail(s),
                   acc * 10 + (CHOOSE i \in 1..10 : Digits[i] = Head(s)) - 1)
  ELSE acc

\* parseInt(val, 10): leading white space, an optional sign, then digits;
\* NaN when no digit follows
parseInt(val) ==
  LET t == TrimLeft(val)
      neg == t # <<>> /\ Head(t) = "-"
      u == IF t # <<>> /\ Head(t) \in {"-", "+"} THEN Tail(t) ELSE t
  IN IF u = <<>> \/ ~IsDigit(Head(u))
     THEN [nan |-> TRUE, n |-> 0]
     ELSE [nan |-> FALSE,
           n |-> IF neg THEN 0 - DigitPrefix(u, 0) ELSE DigitPrefix(u, 0)]

\* JavaScript falsiness of a string | undefined | null
Falsy(val) == val = NullStr \/ val = <<>>

parseNum(val) ==
  IF Falsy(val) \/ trim(val) = <<>> THEN 0
  ELSE IF parseInt(val).nan THEN 0 ELSE parseInt(val).n

parseBool(val) ==
  IF Falsy(val) \/ trim(val) = <<>> THEN FALSE
  ELSE \/ val = <<"1">>
       \/ toLowerCase(val) = <<"t","r","u","e">>
       \/ toLowerCase(val) = <<"y">>

\* number | null as a record: n is meaningful when null is FALSE
parseNullableNum(val) ==
  IF Falsy(val) \/ trim(val) = <<>> THEN [null |-> TRUE, n |-> 0]
  ELSE IF parseInt(val).nan THEN [null |-> TRUE, n |-> 0]
       ELSE [null |-> FALSE, n |-> parseInt(val).n]

\* boolean | null as a record: b is meaningful when null is FALSE
parseNullableBool(val) ==
  IF Falsy(val) \/ trim(val) = <<>> THEN [null |-> TRUE, b |-> FALSE]
  ELSE [null |-> FALSE,
        b |-> \/ val = <<"1">>
              \/ toLowerCase(val) = <<"t","r","u","e">>
              \/ toLowerCase(val) = <<"y">>]

\* parseYearRange: the comma-separated parts in turn, a part with a hyphen
\* as the range between its first two hyphen-separated pieces, any other
\* part as one year; then the distinct years in ascending order
parseYearRange(input) ==
  LET RECURSIVE split(_, _)
      split(str, sep) ==
        IF \E i \in 1..Len(str) : str[i] = sep
        THEN LET i == CHOOSE i \in 1..Len(str) :
                        /\ str[i] = sep
                        /\ \A j \in 1..(i - 1) : str[j] # sep
             IN <<SubSeq(str, 1, i - 1)>>
                  \o split(SubSeq(str, i + 1, Len(str)), sep)
        ELSE <<str>>
      pushed(part) ==
        LET trimmed == trim(part)
        IN IF \E i \in 1..Len(trimmed) : trimmed[i] = "-"
           THEN LET pieces == split(trimmed, "-")
                    start == parseInt(trim(pieces[1]))
                    end == parseInt(trim(pieces[2]))
                IN IF ~start.nan /\ ~end.nan
                   THEN { y \in start.n..end.n : TRUE }
                   ELSE {}
           ELSE LET year == parseInt(trimmed)
                IN IF ~year.nan THEN {year.n} ELSE {}
      parts == split(input, ",")
      years == UNION { pushed(parts[k]) : k \in 1..Len(parts) }
      RECURSIVE sort(_)
      sort(S) ==
        IF S = {} THEN <<>>
        ELSE LET m == CHOOSE x \in S : \A y \in S : x <= y
             IN <<m>> \o sort(S \ {m})
  IN sort(years)

(***************************************************************************)
(* Source rows.  A unified row (RawPlayingRow) carries both domains, a     *)
(* legacy row (RawBattingRow / RawPitchingRow) one.  Identifiers are       *)
(* opaque strings with "" the empty string; `h` stands for the counting    *)
(* columns (b_h / p_h), which the code all treats alike.                   *)
(***************************************************************************)
Years == {2020, 2021}
DataType == {"batting", "pitching"}

UnifiedListing ==
  << [game_key |-> "g1", person_key |-> "p1", team_key |-> "A",
      opponent_key |-> "B", alignment |-> <<"1">>, site_key |-> "s1",
      B_G |-> <<"1">>, P_G |-> <<"0">>, B_H |-> <<"1">>, P_H |-> <<"0">>],
     [game_key |-> "g1", person_key |-> "p2", team_key |-> "B",
      opponent_key |-> "A", alignment |-> <<"0">>, site_key |-> "s1",
      B_G |-> <<"1">>, P_G |-> <<"1">>, B_H |-> <<"2">>, P_H |-> <<"1">>],
     [game_key |-> "g2", person_key |-> "p1", team_key |-> "A",
      opponent_key |-> "B", alignment |-> <<"1">>, site_key |-> "",
      B_G |-> <<>>, P_G |-> <<"1">>, B_H |-> <<>>, P_H |-> <<"2">>] >>

LegacyListing ==
  << [gid |-> "g1", id |-> "p1", team |-> "A", site |-> "s1",
      vishome |-> <<"H">>, opp |-> "B", h |-> <<"1">>,
      box |-> <<>>, pbp |-> <<"y">>, stattype |-> ""],
     [gid |-> "g1", id |-> "p2", team |-> "B", site |-> "s1",
      vishome |-> <<"v">>, opp |-> "A", h |-> <<"2">>,
      box |-> <<"1">>, pbp |-> <<>>, stattype |-> "value"],
     [gid |-> "g1", id |-> "p2", team |-> "B", site |-> "s2",
      vishome |-> <<"v">>, opp |-> "A", h |-> <<"x">>,
      box |-> <<>>, pbp |-> <<>>, stattype |-> "value"] >>

\* the playing file of another season: other games, partly the same teams
\* and players
UnifiedListing2021 ==
  << [game_key |-> "g3", person_key |-> "p2", team_key |-> "B",
      opponent_key |-> "A", alignment |-> <<"0">>, site_key |-> "s3",
      B_G |-> <<"1">>, P_G |-> <<"1">>, B_H |-> <<"3">>, P_H |-> <<"0">>],
     [game_key |-> "g3", person_key |-> "p1", team_key |-> "A",
      opponent_key |-> "B", alignment |-> <<"1">>, site_key |-> "s3",
      B_G |-> <<"1">>, P_G |-> <<"0">>, B_H |-> <<"0">>, P_H |-> <<"0">>],
     [game_key |-> "g4", person_key |-> "p3", team_key |-> "C",
      opponent_key |-> "B", alignment |-> <<"1">>, site_key |-> "s3",
      B_G |-> <<"0">>, P_G |-> <<"1">>, B_H |-> <<"0">>, P_H |-> <<"4">>] >>

\* the listing repeated up to n rows, and its excerpts of at most n rows
Cyclic(listing, n) == [k \in 1..n |-> listing[((k - 1) % Len(listing)) + 1]]

\* a playing file is the listing up to some row
PlayingFiles ==
  { SubSeq(Cyclic(UnifiedListing, MaxRows), 1, j) : j \in 1..MaxRows }

\* a legacy file is any excerpt of the listing, or the file whose one row
\* has a quoted blank as opponent (the parser trims around the delimiters
\* only, a quoted field is kept as it is)
LegacyFiles ==
  ({ SubSeq(Cyclic(LegacyListing, MaxRows), i, j) :
       i \in 1..MaxRows, j \in 1..MaxRows } \ {<<>>})
  \cup
  { << [gid |-> "g5", id |-> "p1", team |-> "A", site |-> "",
        vishome |-> <<"H">>, opp |-> " ", h |-> <<"1">>,
        box |-> <<>>, pbp |-> <<>>, stattype |-> "value"] >> }

\* year lists of a call; the two years are interchangeable, so the first
\* one is fixed
YearLists ==
  { ys \in UNION { [1..k -> Years] : k \in 1..MaxRuns } : ys[1] = 2020 }

(***************************************************************************)
(* Row classifier.                                                         *)
(***************************************************************************)
hasBattingStats(row) ==
  LET bg == parseInt(row.B_G) IN ~bg.nan /\ bg.n > 0

\* variant of hasPitchingStats that yields to the batting indicator
hasPitchingStats_unlessBatting(row) ==
  LET bg == parseInt(row.B_G)
      pg == parseInt(row.P_G)
  IN ~pg.nan /\ pg.n > 0 /\ ~(~bg.nan /\ bg.n > 0)

hasPitchingStats(row) ==
  LET pg == parseInt(row.P_G) IN ~pg.nan /\ pg.n > 0

toBattingRow(row) ==
  [gid |-> row.game_key, id |-> row.person_key, team |-> row.team_key,
   site |-> row.site_key,
   vishome |-> IF row.alignment = <<"1">> THEN <<"H">> ELSE <<"V">>,
   opp |-> row.opponent_key, h |-> row.B_H,
   box |-> <<>>, pbp |-> <<>>, stattype |-> ""]

toPitchingRow(row) ==
  [gid |-> row.game_key, id |-> row.person_key, team |-> row.team_key,
   site |-> row.site_key,
   vishome |-> IF row.alignment = <<"1">> THEN <<"H">> ELSE <<"V">>,
   opp |-> row.opponent_key, h |-> row.P_H,
   box |-> <<>>, pbp |-> <<>>, stattype |-> ""]

(***************************************************************************)
(* State.                                                                  *)
(***************************************************************************)
VARIABLES
  procs,       \* worker processes using the store
  teams,       \* table teams: set of team_id
  players,     \* table players: set of player_id
  games,       \* table games: game_id -> row
  stats,       \* tables batter_game_stats / pitcher_game_stats, in id order
  staging,     \* tables staging_batting / staging_pitching, in id order
  batches,     \* table ingestion_batches: batch_id -> row
  nextSerial,  \* next SERIAL id of each staging table
  nextUuid,    \* next fresh uuid (gen_random_uuid / randomUUID)
  local,       \* local variables and position of each process
  runs,        \* ingestYear invocations started
  calls,       \* stand-alone library calls started
  faults,      \* failures injected so far
  fantasy      \* tables fantasy_rulesets / fantasy_game_points

vars == <<procs, teams, players, games, stats, staging, batches,
          nextSerial, nextUuid, local, runs, calls, faults, fantasy>>

store == <<teams, players, games, stats, staging, batches,
           nextSerial, nextUuid>>

(***************************************************************************)
(* Store operations (one SQL statement each).                              *)
(***************************************************************************)
IsBlank(id) == id \in {"", " "}

\* teams.ts: INSERT ... ON CONFLICT (team_id) DO NOTHING
upsertTeams(T, teamIds) ==
  LET uniqueIds == {id \in teamIds : ~IsBlank(id)}
  IN IF teamIds = {} \/ uniqueIds = {} THEN T ELSE T \cup uniqueIds

\* players.ts: INSERT ... ON CONFLICT (player_id) DO NOTHING
upsertPlayers(P, playerIds) ==
  IF playerIds = {} THEN P ELSE P \cup playerIds

\* foreign keys of a new games row
GameFKOk(T, game) ==
  /\ game.home_team_id \in T \cup {NULL}
  /\ game.away_team_id \in T \cup {NULL}

\* variant of upsertGame that overwrites the existing row
upsertGame_overwrite(G, game) ==
  IF game.game_id \in DOMAIN G
  THEN [G EXCEPT ![game.game_id] = game]
  ELSE G @@ (game.game_id :> game)

\* games: INSERT ... ON CONFLICT (game_id) DO UPDATE SET has_box, has_pbp
upsertGame(G, game) ==
  IF game.game_id \in DOMAIN G
  THEN [G EXCEPT ![game.game_id] =
          [@ EXCEPT !.has_box = game.has_box \/ @,
                    !.has_pbp = game.has_pbp \/ @]]
  ELSE G @@ (game.game_id :> game)

\* foreign keys of a stat row
StatsFKOk(T, P, G, s) ==
  /\ s.game_id \in DOMAIN G
  /\ s.player_id \in P
  /\ s.team_id \in T
  /\ s.opponent_id \in T \cup {NULL}

\* UNIQUE(game_id, player_id, stat_type): a NULL stat_type never conflicts
StatsConflict(old, s) ==
  /\ old.game_id = s.game_id
  /\ old.player_id = s.player_id
  /\ old.stat_type # NULL
  /\ s.stat_type # NULL
  /\ old.stat_type = s.stat_type

\* stats: INSERT ... ON CONFLICT (game_id, player_id, stat_type) DO UPDATE
upsertStats(S, s) ==
  IF \E i \in 1..Len(S) : StatsConflict(S[i], s)
  THEN [i \in 1..Len(S) |-> IF StatsConflict(S[i], s) THEN s ELSE S[i]]
  ELSE Append(S, s)

\* staging.ts: createIngestionBatch
createIngestionBatch(B, id, type, year) ==
  B @@ (id :> [source_type |-> type, year |-> year,
               status |-> "in_progress", total_rows |-> NullNum,
               processed_rows |-> 0, error_message |-> NULL,
               completed_at |-> FALSE])

COALESCE(a, b, null) == IF a # null THEN a ELSE b

\* variant of updateIngestionBatch that keeps a terminal status
updateIngestionBatch_terminalGuard(B, batchId, updates) ==
  IF batchId \notin DOMAIN B THEN B
  ELSE IF B[batchId].status \in {"completed", "failed"} THEN B
  ELSE [B EXCEPT ![batchId] =
          [@ EXCEPT !.status = COALESCE(updates.status, @, NULL),
                    !.total_rows = COALESCE(updates.totalRows, @, NullNum),
                    !.processed_rows =
                       COALESCE(updates.processedRows, @, NullNum),
                    !.error_message = updates.errorMessage,
                    !.completed_at = updates.status = "completed"]]

\* staging.ts: updateIngestionBatch
updateIngestionBatch(B, batchId, updates) ==
  IF batchId \notin DOMAIN B THEN B
  ELSE IF updates.status = "completed" THEN
    [B EXCEPT ![batchId] =
       [@ EXCEPT !.status = updates.status,
                 !.total_rows = COALESCE(updates.totalRows, @, NullNum),
                 !.processed_rows =
                    COALESCE(updates.processedRows, @, NullNum),
                 !.completed_at = TRUE]]
  ELSE IF updates.status = "failed" THEN
    [B EXCEPT ![batchId] =
       [@ EXCEPT !.status = updates.status,
                 !.error_message = updates.errorMessage]]
  ELSE
    [B EXCEPT ![batchId] =
       [@ EXCEPT !.status = COALESCE(updates.status, @, NULL),
                 !.total_rows = COALESCE(updates.totalRows, @, NullNum),
                 !.processed_rows =
                    COALESCE(updates.processedRows, @, NullNum)]]

\* variant of hasCompletedIngestion without the status filter
hasCompletedIngestion_anyStatus(B, type, year) ==
  Cardinality({id \in DOMAIN B :
                 /\ B[id].source_type = type
                 /\ B[id].year = year}) > 0

\* staging.ts: hasCompletedIngestion
hasCompletedIngestion(B, type, year) ==
  Cardinality({id \in DOMAIN B :
                 /\ B[id].source_type = type
                 /\ B[id].year = year
                 /\ B[id].status = "completed"}) > 0

\* staging.ts: clearStagingBatch (one table)
clearStagingBatch(St, batchId) ==
  SelectSeq(St, LAMBDA r : r.batch_id # batchId)

\* one INSERT of the staging writer: rows get the next SERIAL ids, and
\* row_num = written - Len(batch) + i
\* variant: row_num counted from 1 in every write page
insertBatch_pageLocal(St, serial, batchId, batch, written) ==
  St \o [i \in 1..Len(batch) |->
           [id |-> serial + i - 1, batch_id |-> batchId,
            row_num |-> i,
            gid |-> batch[i].gid, player_id |-> batch[i].id,
            team |-> batch[i].team, site |-> batch[i].site,
            vishome |-> batch[i].vishome, opp |-> batch[i].opp,
            h |-> batch[i].h, box |-> batch[i].box, pbp |-> batch[i].pbp,
            stattype |-> batch[i].stattype, processed |-> FALSE]]

\* the INSERT of insertBatch / insertBattingBatch / insertPitchingBatch:
\* row_num is (rows counted so far) - batch.length + i + 1 for i from 0
insertBatch(St, serial, batchId, batch, written) ==
  St \o [i \in 1..Len(batch) |->
           [id |-> serial + i - 1, batch_id |-> batchId,
            row_num |-> written - Len(batch) + i,
            gid |-> batch[i].gid, player_id |-> batch[i].id,
            team |-> batch[i].team, site |-> batch[i].site,
            vishome |-> batch[i].vishome, opp |-> batch[i].opp,
            h |-> batch[i].h, box |-> batch[i].box, pbp |-> batch[i].pbp,
            stattype |-> batch[i].stattype, processed |-> FALSE]]

(***************************************************************************)
(* Fantasy scoring engine.  Points are counted in hundredths (half a point *)
(* is 50), so that Math.round(x * 100) / 100 is a rounding of integers.    *)
(* A property of a stat record carries its JavaScript type; a property the *)
(* record does not have reads as Undefined.                                *)
(***************************************************************************)
Num(n) == [t |-> "number", v |-> n]
Bool(b) == [t |-> "boolean", v |-> IF b THEN 1 ELSE 0]
Null == [t |-> "null", v |-> 0]
\* a string that is not a numeral (an identifier)
Str == [t |-> "string", v |-> 0]

\* stats[propName]
Prop(statsRecord, propName) ==
  IF propName \in DOMAIN statsRecord THEN statsRecord[propName]
  ELSE [t |-> "undefined", v |-> 0]

\* Math.round(a / b): the nearest integer, a half rounds up
MathRound(a, b) ==
  LET n == IF b < 0 THEN 0 - a ELSE a
      d == IF b < 0 THEN 0 - b ELSE b
  IN (2 * n + d) \div (2 * d)

\* variant of calculateRulePoints that reports a zero value as an entry
calculateRulePoints_keepZero(value, rule) ==
  LET numValue == value.v
  IN IF value.t \in {"null", "undefined"} THEN <<>>
     ELSE IF value.t = "string"
     THEN << [stat |-> rule.stat, value |-> 0, points |-> 0, nan |-> TRUE,
              calculation |-> <<0, rule.perUnit, rule.points>>] >>
     ELSE << [stat |-> rule.stat, value |-> numValue,
              points |-> IF rule.perUnit # 0
                         THEN MathRound(numValue * rule.points, rule.perUnit)
                         ELSE numValue * rule.points,
              nan |-> FALSE,
              calculation |-> <<numValue, rule.perUnit, rule.points>>] >>

\* calculateRulePoints: no entry (null) or the one breakdown entry of the
\* rule.  A string value is not === 0 and makes the product NaN (nan).
\* perUnit 0 stands for an absent perUnit as well, both are falsy.
calculateRulePoints(value, rule) ==
  LET numValue == value.v
  IN IF value.t \in {"null", "undefined"} THEN <<>>
     ELSE IF value.t = "string"
     THEN << [stat |-> rule.stat, value |-> 0, points |-> 0, nan |-> TRUE,
              calculation |-> <<0, rule.perUnit, rule.points>>] >>
     ELSE IF numValue = 0 THEN <<>>
     ELSE << [stat |-> rule.stat, value |-> numValue,
              points |-> IF rule.perUnit # 0
                         THEN MathRound(numValue * rule.points, rule.perUnit)
                         ELSE numValue * rule.points,
              nan |-> FALSE,
              calculation |-> <<numValue, rule.perUnit, rule.points>>] >>

\* one element of bonus.conditions.map(...)
ConditionResult(statsRecord, condition) ==
  LET value == Prop(statsRecord, condition.stat)
      numValue == IF value.t \in {"boolean", "number"} THEN value.v ELSE 0
  IN CASE condition.op = "gte" -> numValue >= condition.value
       [] condition.op = "lte" -> numValue <= condition.value
       [] condition.op = "gt" -> numValue > condition.value
       [] condition.op = "lt" -> numValue < condition.value
       [] condition.op = "eq" -> numValue = condition.value
       [] OTHER -> FALSE

\* variant of evaluateBonusConditions with the two combinators exchanged
evaluateBonusConditions_swapped(statsRecord, bonus) ==
  LET results == [i \in DOMAIN bonus.conditions |->
                    ConditionResult(statsRecord, bonus.conditions[i])]
  IN IF bonus.logic = "AND"
     THEN \E i \in DOMAIN results : results[i]
     ELSE \A i \in DOMAIN results : results[i]

evaluateBonusConditions(statsRecord, bonus) ==
  LET results == [i \in DOMAIN bonus.conditions |->
                    ConditionResult(statsRecord, bonus.conditions[i])]
  IN IF bonus.logic = "AND"
     THEN \A i \in DOMAIN results : results[i]
     ELSE \E i \in DOMAIN results : results[i]

\* statMapping of calculateBattingPoints
BattingStatMapping ==
  [n \in {"plate_appearances", "at_bats", "runs", "hits", "doubles",
          "triples", "home_runs", "runs_batted_in", "sacrifice_hits",
          "sacrifice_flies", "hit_by_pitch", "walks", "intentional_walks",
          "strikeouts", "stolen_bases", "caught_stealing",
          "grounded_into_dp", "reached_on_interference",
          "reached_on_error"} |-> n]

\* statMapping of calculatePitchingPoints
PitchingStatMapping ==
  [n \in {"outs_pitched", "innings_pitched", "batters_faced",
          "hits_allowed", "doubles_allowed", "triples_allowed",
          "home_runs_allowed", "runs_allowed", "earned_runs", "walks",
          "intentional_walks", "strikeouts", "hit_batters", "wild_pitches",
          "balks", "sacrifice_hits_allowed", "sacrifice_flies_allowed",
          "stolen_bases_allowed", "caught_stealing", "won", "lost", "saved",
          "save", "game_started", "game_finished", "complete_game"} |->
     CASE n = "innings_pitched" -> "outs_pitched"
       [] n = "save" -> "saved"
       [] OTHER -> n]

RECURSIVE ApplyRules(_, _, _)
\* the loop over the base scoring rules: the breakdown it builds
ApplyRules(statsRecord, rules, statMapping) ==
  IF rules = <<>> THEN <<>>
  ELSE LET rule == Head(rules)
           propName == IF rule.stat \in DOMAIN statMapping
                       THEN statMapping[rule.stat] ELSE rule.stat
       IN calculateRulePoints(Prop(statsRecord, propName), rule)
            \o ApplyRules(statsRecord, Tail(rules), statMapping)

\* the bonus is relevant to the domain of statMapping: some condition has
\* `c.stat in statMapping`.  statMapping is an object literal, so the `in`
\* operator also finds the property names it inherits from Object.prototype
IsDomainBonus(bonus, statMapping) ==
  LET inherited == {"constructor", "toString", "toLocaleString", "valueOf",
                    "hasOwnProperty", "isPrototypeOf",
                    "propertyIsEnumerable", "__proto__",
                    "__defineGetter__", "__defineSetter__",
                    "__lookupGetter__", "__lookupSetter__"}
  IN \E i \in DOMAIN bonus.conditions :
        bonus.conditions[i].stat \in DOMAIN statMapping \cup inherited

RECURSIVE ApplyBonuses(_, _, _)
\* the loop over ruleset.bonuses: the bonuses it applies, in order
ApplyBonuses(statsRecord, bonuses, statMapping) ==
  IF bonuses = <<>> THEN <<>>
  ELSE LET bonus == Head(bonuses)
       IN (IF IsDomainBonus(bonus, statMapping)
              /\ evaluateBonusConditions(statsRecord, bonus)
           THEN <<bonus>> ELSE <<>>)
            \o ApplyBonuses(statsRecord, Tail(bonuses), statMapping)

RECURSIVE SumPoints(_)
SumPoints(breakdown) ==
  IF breakdown = <<>> THEN 0
  ELSE Head(breakdown).points + SumPoints(Tail(breakdown))

\* variant of ScoringResult that rounds the total to whole points
ScoringResult_wholePoints(statsRecord, rules, bonuses, statMapping) ==
  LET base == ApplyRules(statsRecord, rules, statMapping)
      applied == ApplyBonuses(statsRecord, bonuses, statMapping)
      breakdown ==
        base \o [i \in 1..Len(applied) |->
                   [stat |-> "bonus:" \o applied[i].name, value |-> 1,
                    points |-> applied[i].points, nan |-> FALSE,
                    calculation |-> <<>>]]
  IN [totalPoints |-> 100 * MathRound(SumPoints(breakdown), 100),
      nan |-> \E i \in 1..Len(breakdown) : breakdown[i].nan,
      breakdown |-> breakdown,
      bonusesApplied |-> [i \in 1..Len(applied) |-> applied[i].name]]

\* the common body of calculateBattingPoints and calculatePitchingPoints
ScoringResult(statsRecord, rules, bonuses, statMapping) ==
  LET base == ApplyRules(statsRecord, rules, statMapping)
      applied == ApplyBonuses(statsRecord, bonuses, statMapping)
      breakdown ==
        base \o [i \in 1..Len(applied) |->
                   [stat |-> "bonus:" \o applied[i].name, value |-> 1,
                    points |-> applied[i].points, nan |-> FALSE,
                    calculation |-> <<>>]]
  IN [totalPoints |-> SumPoints(breakdown),
      nan |-> \E i \in 1..Len(breakdown) : breakdown[i].nan,
      breakdown |-> breakdown,
      bonusesApplied |-> [i \in 1..Len(applied) |-> applied[i].name]]

\* variant of calculateBattingPoints that walks the rules backwards
calculateBattingPoints_reversed(statsRecord, ruleset) ==
  ScoringResult(statsRecord,
                [i \in 1..Len(ruleset.batting) |->
                   ruleset.batting[Len(ruleset.batting) + 1 - i]],
                ruleset.bonuses, BattingStatMapping)

calculateBattingPoints(statsRecord, ruleset) ==
  ScoringResult(statsRecord, ruleset.batting, ruleset.bonuses,
                BattingStatMapping)

\* variant of calculatePitchingPoints that does not report the bonuses
calculatePitchingPoints_unnamed(statsRecord, ruleset) ==
  [ScoringResult(statsRecord, ruleset.pitching, ruleset.bonuses,
                 PitchingStatMapping) EXCEPT !.bonusesApplied = <<>>]

calculatePitchingPoints(statsRecord, ruleset) ==
  ScoringResult(statsRecord, ruleset.pitching, ruleset.bonuses,
                PitchingStatMapping)

(***************************************************************************)
(* Tables fantasy_rulesets (ruleset_id -> ruleset) and fantasy_game_points *)
(* (in id order), and the frame of a scoreGame call or of one call of the  *)
(* scoring engine.                                                         *)
(***************************************************************************)
EmptyFantasy == [rulesets |-> <<>>, points |-> <<>>]

NoRuleset == [id |-> NULL, batting |-> <<>>, pitching |-> <<>>,
              bonuses |-> <<>>]

NoScore ==
  [pc |-> "idle", ruleset |-> NoRuleset, gameId |-> NULL,
   domain |-> NULL, stats |-> <<>>,
   result |-> [totalPoints |-> 0, nan |-> FALSE, breakdown |-> <<>>,
               bonusesApplied |-> <<>>],
   batterStats |-> <<>>, pitcherStats |-> <<>>,
   battingScores |-> 0, pitchingScores |-> 0, error |-> NULL,
   \* scoreCommand / scoreGamesForDateRange: the ruleset id asked for, the
   \* games still to visit, the force option, who called scoreGame
   requested |-> NULL, queue |-> <<>>, force |-> FALSE, caller |-> NULL,
   gamesScored |-> 0,
   inRange |-> <<>>,   \* history: the games the range query returned
   before |-> <<>>,    \* history: fantasy_game_points when the call began
   prev |-> [ruleset |-> NoRuleset, gameId |-> NULL],
                       \* history: ruleset and game of the call before
   computed |-> <<>>]  \* history: the latest result computed for each key

(***************************************************************************)
(* Local state of a process: the ingestYears / ingestYear frame (i...),    *)
(* the loadPlayingToStaging / load...ToStaging frame (s...) and the        *)
(* transformBattingData / transformPitchingData frame (t...).              *)
(***************************************************************************)
NoResult ==
  [year |-> 0, skipped |-> FALSE, battingBatchId |-> NullNum,
   pitchingBatchId |-> NullNum, totalRows |-> NullNum,
   battingRows |-> NullNum, pitchingRows |-> NullNum,
   battingTransform |-> NullNum, pitchingTransform |-> NullNum,
   error |-> NULL]

LocalInit ==
  [ipc |-> "idle", years |-> <<>>, yi |-> 0, results |-> <<>>,
   options |-> [force |-> FALSE, skipDownload |-> FALSE,
               skipTransform |-> FALSE, localFile |-> FALSE],
   battingExists |-> FALSE, pitchingExists |-> FALSE,
   battingBatchId |-> NullNum, pitchingBatchId |-> NullNum,
   battingTransform |-> NullNum, pitchingTransform |-> NullNum,
   errorMessage |-> NULL, result |-> NoResult,
   entry |-> <<>>,   \* history: the store when ingestYear was entered
   \* staging writer
   spc |-> "idle", file |-> <<>>, fpos |-> 0, stype |-> NULL,
   sBatchId |-> NullNum, sresult |-> NullNum,
   sBattingBatchId |-> NullNum, sPitchingBatchId |-> NullNum,
   battingBatch |-> <<>>, pitchingBatch |-> <<>>,
   battingRows |-> 0, pitchingRows |-> 0, totalRows |-> 0,
   \* transformer
   tpc |-> "idle", tcaller |-> NULL, ttype |-> NULL, batchId |-> NullNum,
   processedRows |-> 0, tgames |-> <<>>, tplayers |-> {}, tteams |-> {},
   tteamOrder |-> <<>>,    \* the Set `teams` in insertion order
   tplayerOrder |-> <<>>,  \* the Set `players` in insertion order
   held |-> {},            \* keys inserted by the statement in flight
   offset |-> 0, rows |-> <<>>, gi |-> 0, si |-> 0,
   tresult |-> NullNum, terror |-> NULL,
   score |-> NoScore,  \* scoreGame / scoring engine
   \* field conversion / parseYearRange: the string and what was returned
   parse |-> [pc |-> "idle", val |-> <<>>, converted |-> FALSE,
              num |-> 0, bool |-> FALSE,
              nullableNum |-> [null |-> TRUE, n |-> 0],
              nullableBool |-> [null |-> TRUE, b |-> FALSE],
              ranged |-> FALSE, years |-> <<>>],
   resumed |-> FALSE,  \* history: this run follows an interrupted run
   snap |-> <<>>]      \* history: the store when that batch was first run

Init ==
  /\ procs = {1}
  /\ teams = {}
  /\ players = {}
  /\ games = <<>>
  /\ stats = [d \in DataType |-> <<>>]
  /\ staging = [d \in DataType |-> <<>>]
  /\ batches = <<>>
  /\ nextSerial = [d \in DataType |-> 1]
  /\ nextUuid = 1
  /\ local = [p \in procs |-> LocalInit]
  /\ runs = 0
  /\ calls = 0
  /\ faults = 0
  /\ fantasy = EmptyFantasy

(***************************************************************************)
(* Transformer (transformBattingData / transformPitchingData; the two      *)
(* differ only in the tables they read and write).                         *)
(***************************************************************************)
\* SELECT ... WHERE batch_id = b AND processed = false ORDER BY id
\* LIMIT TRANSFORM_BATCH_SIZE OFFSET offset
SelectPage(St, b, offset) ==
  LET unprocessed == SelectSeq(St, LAMBDA r : r.batch_id = b /\ ~r.processed)
      last == IF offset + TRANSFORM_BATCH_SIZE < Len(unprocessed)
              THEN offset + TRANSFORM_BATCH_SIZE ELSE Len(unprocessed)
  IN SubSeq(unprocessed, offset + 1, last)

isHome(row) ==
  row.vishome # NullStr /\ toUpperCase(row.vishome) = <<"H">>

OrNull(s) == IF s = "" THEN NULL ELSE s

\* the GameInsert derived from one staging row
GameOf(row) ==
  LET homeTeam == IF isHome(row) THEN row.team ELSE row.opp
      awayTeam == IF isHome(row) THEN row.opp ELSE row.team
  IN [game_id |-> row.gid, site |-> OrNull(row.site),
      home_team_id |-> OrNull(homeTeam), away_team_id |-> OrNull(awayTeam),
      has_box |-> parseBool(row.box),
      has_pbp |-> row.pbp = <<"y">> \/ row.pbp = <<"d">>]

\* the stat record derived from one staging row
StatsOf(row) ==
  [game_id |-> row.gid, player_id |-> row.player_id, team_id |-> row.team,
   is_home |-> isHome(row), opponent_id |-> OrNull(row.opp),
   hits |-> parseNum(row.h), stat_type |-> OrNull(row.stattype)]

RECURSIVE CollectGames(_, _)
\* games.set(row.gid, ...) for the first row of each gid not yet in the map
CollectGames(gs, rs) ==
  IF rs = <<>> THEN gs
  ELSE LET row == Head(rs)
           known == \E i \in 1..Len(gs) : gs[i].game_id = row.gid
       IN CollectGames(IF row.gid # "" /\ ~known
                       THEN Append(gs, GameOf(row)) ELSE gs,
                       Tail(rs))

SeqRange(sq) == {sq[i] : i \in 1..Len(sq)}

RECURSIVE AddAll(_, _)
\* Set.add of each non-empty id, in order: a Set keeps insertion order
AddAll(order, ids) ==
  IF ids = <<>> THEN order
  ELSE AddAll(IF Head(ids) # "" /\ Head(ids) \notin SeqRange(order)
              THEN Append(order, Head(ids)) ELSE order,
              Tail(ids))

\* the transformer throws: its caller sees the rejection
TransformThrows(L, msg) ==
  IF L.tcaller = "ingestYear"
  THEN [L EXCEPT !.tpc = "idle", !.ipc = "catchB", !.errorMessage = msg]
  ELSE [L EXCEPT !.tpc = "idle", !.terror = msg]

\* one page query plus the entity collection that follows it
TSelect(p) ==
  LET L == local[p]
      page == SelectPage(staging[L.ttype], L.batchId, L.offset)
  IN /\ L.tpc = "select"
     /\ local' = [local EXCEPT ![p] =
          IF page = <<>>
          THEN [L EXCEPT !.tpc = "return", !.rows = <<>>]
          ELSE [L EXCEPT
                 !.tpc = "teams",
                 !.rows = page,
                 !.tplayers = @ \cup {page[i].player_id : i \in
                                 {j \in 1..Len(page) : page[j].player_id # ""}},
                 !.tteams = @ \cup
                    {page[i].team : i \in
                       {j \in 1..Len(page) : page[j].team # ""}} \cup
                    {page[i].opp : i \in
                       {j \in 1..Len(page) : page[j].opp # ""}},
                 \* team then opp of each row, in page order
                 !.tteamOrder =
                    AddAll(@, [k \in 1..(2 * Len(page)) |->
                                 IF k % 2 = 1 THEN page[(k + 1) \div 2].team
                                 ELSE page[k \div 2].opp]),
                 !.tplayerOrder =
                    AddAll(@, [k \in 1..Len(page) |-> page[k].player_id]),
                 !.tgames = CollectGames(@, page)]]
     /\ UNCHANGED <<procs, fantasy, store, runs, calls, faults>>

TUpsertTeams(p) ==
  LET L == local[p]
  IN /\ L.tpc = "teams"
     /\ teams' = upsertTeams(teams, L.tteams)
     /\ local' = [local EXCEPT ![p] = [L EXCEPT !.tpc = "players"]]
     /\ UNCHANGED <<procs, fantasy, players, games, stats, staging, batches,
                    nextSerial, nextUuid, runs, calls, faults>>

TUpsertPlayers(p) ==
  LET L == local[p]
  IN /\ L.tpc = "players"
     /\ players' = upsertPlayers(players, L.tplayers)
     /\ local' = [local EXCEPT ![p] =
          [L EXCEPT !.tpc = IF L.tgames = <<>> THEN "stats" ELSE "games",
                    !.gi = 1, !.si = 1]]
     /\ UNCHANGED <<procs, fantasy, teams, games, stats, staging, batches,
                    nextSerial, nextUuid, runs, calls, faults>>

\* for (const game of games.values()) await upsertGame(sql, game)
TUpsertGame(p) ==
  LET L == local[p]
      game == L.tgames[L.gi]
  IN /\ L.tpc = "games"
     /\ IF game.game_id \in DOMAIN games \/ GameFKOk(teams, game)
        THEN /\ games' = upsertGame(games, game)
             /\ local' = [local EXCEPT ![p] =
                  [L EXCEPT !.gi = @ + 1,
                            !.tpc = IF L.gi = Len(L.tgames)
                                    THEN "stats" ELSE "games"]]
        ELSE /\ games' = games
             /\ local' = [local EXCEPT ![p] =
                  TransformThrows(L, "foreign key violation")]
     /\ UNCHANGED <<procs, fantasy, teams, players, stats, staging, batches,
                    nextSerial, nextUuid, runs, calls, faults>>

\* one iteration of the stats loop
TUpsertStats(p) ==
  LET L == local[p]
      row == L.rows[L.si]
      skip == row.gid = "" \/ row.player_id = "" \/ row.team = ""
      next == IF L.si = Len(L.rows) THEN "mark" ELSE "stats"
  IN /\ L.tpc = "stats"
     /\ IF skip
        THEN /\ stats' = stats
             /\ local' = [local EXCEPT ![p] =
                  [L EXCEPT !.si = @ + 1, !.tpc = next]]
        ELSE IF StatsFKOk(teams, players, games, StatsOf(row))
        THEN /\ stats' = [stats EXCEPT ![L.ttype] =
                            upsertStats(@, StatsOf(row))]
             /\ local' = [local EXCEPT ![p] =
                  [L EXCEPT !.si = @ + 1, !.tpc = next,
                            !.processedRows = @ + 1]]
        ELSE /\ stats' = stats
             /\ local' = [local EXCEPT ![p] =
                  TransformThrows(L, "foreign key violation")]
     /\ UNCHANGED <<procs, fantasy, teams, players, games, staging, batches,
                    nextSerial, nextUuid, runs, calls, faults>>

\* UPDATE staging SET processed = true WHERE id = ANY(rowIds); offset += n
TMarkProcessed(p) ==
  LET L == local[p]
      rowIds == {L.rows[i].id : i \in 1..Len(L.rows)}
  IN /\ L.tpc = "mark"
     /\ staging' = [staging EXCEPT ![L.ttype] =
          [i \in 1..Len(@) |->
             IF @[i].id \in rowIds THEN [@[i] EXCEPT !.processed = TRUE]
             ELSE @[i]]]
     /\ local' = [local EXCEPT ![p] =
          [L EXCEPT !.tpc = "select", !.offset = @ + Len(L.rows)]]
     /\ UNCHANGED <<procs, fantasy, teams, players, games, stats, batches,
                    nextSerial, nextUuid, runs, calls, faults>>

\* return { processedRows, ... } to the caller
TReturn(p) ==
  LET L == local[p]
  IN /\ L.tpc = "return"
     /\ local' = [local EXCEPT ![p] =
          IF L.tcaller = "ingestYear"
          THEN IF L.ttype = "batting"
               THEN [L EXCEPT !.tpc = "idle", !.ipc = "transformP",
                              !.battingTransform = L.processedRows]
               ELSE [L EXCEPT !.tpc = "idle", !.ipc = "completeB",
                              !.pitchingTransform = L.processedRows]
          ELSE [L EXCEPT !.tpc = "idle", !.tresult = L.processedRows]]
     /\ UNCHANGED <<procs, fantasy, store, runs, calls, faults>>

\* entry of transformBattingData / transformPitchingData
TEnter(L, caller, type, b) ==
  [L EXCEPT !.tpc = "select", !.tcaller = caller, !.ttype = type,
            !.batchId = b, !.processedRows = 0, !.tgames = <<>>,
            !.tplayers = {}, !.tteams = {}, !.offset = 0, !.rows = <<>>,
            !.tteamOrder = <<>>, !.tplayerOrder = <<>>, !.held = {},
            !.gi = 0, !.si = 0, !.tresult = NullNum, !.terror = NULL,
            !.resumed = L.terror = "interrupted" /\ L.ttype = type
                        /\ L.batchId = b,
            !.snap = IF L.terror = "interrupted" /\ L.ttype = type
                        /\ L.batchId = b
                     THEN L.snap
                     ELSE IF caller # "caller" THEN <<>>
                     ELSE [teams |-> teams, players |-> players,
                           games |-> games, stats |-> stats,
                           staging |-> staging]]

(***************************************************************************)
(* Staging writer.                                                         *)
(***************************************************************************)
\* loadPlayingToStaging: the two randomUUID() calls and the counters
LoadPlayingToStagingBegin(p) ==
  LET L == local[p]
  IN /\ L.ipc = "stage"
     /\ nextUuid' = nextUuid + 2
     /\ local' = [local EXCEPT ![p] =
          [L EXCEPT !.ipc = "staging", !.spc = "rows", !.fpos = 0,
                    !.sBattingBatchId = nextUuid,
                    !.sPitchingBatchId = nextUuid + 1,
                    !.battingBatch = <<>>, !.pitchingBatch = <<>>,
                    !.battingRows = 0, !.pitchingRows = 0, !.totalRows = 0]]
     /\ UNCHANGED <<procs, fantasy, teams, players, games, stats, staging, batches,
                    nextSerial, runs, calls, faults>>

\* one iteration of the row loop of loadPlayingToStaging, with the page
\* inserts it triggers
StageRow(p) ==
  LET L == local[p]
      row == L.file[L.fpos + 1]
      hasB == hasBattingStats(row)
      hasP == hasPitchingStats(row)
      bBatch == IF hasB THEN Append(L.battingBatch, toBattingRow(row))
                ELSE L.battingBatch
      bRows == IF hasB THEN L.battingRows + 1 ELSE L.battingRows
      bFull == hasB /\ Len(bBatch) >= BATCH_SIZE
      pBatch == IF hasP THEN Append(L.pitchingBatch, toPitchingRow(row))
                ELSE L.pitchingBatch
      pRows == IF hasP THEN L.pitchingRows + 1 ELSE L.pitchingRows
      pFull == hasP /\ Len(pBatch) >= BATCH_SIZE
  IN /\ L.spc = "rows"
     /\ staging' =
          [d \in DataType |->
             IF d = "batting" /\ bFull
             THEN insertBatch(staging[d], nextSerial[d], L.sBattingBatchId,
                              bBatch, bRows)
             ELSE IF d = "pitching" /\ pFull
             THEN insertBatch(staging[d], nextSerial[d], L.sPitchingBatchId,
                              pBatch, pRows)
             ELSE staging[d]]
     /\ nextSerial' =
          [d \in DataType |->
             IF d = "batting" /\ bFull THEN nextSerial[d] + Len(bBatch)
             ELSE IF d = "pitching" /\ pFull THEN nextSerial[d] + Len(pBatch)
             ELSE nextSerial[d]]
     /\ local' = [local EXCEPT ![p] =
          [L EXCEPT !.fpos = @ + 1, !.totalRows = @ + 1,
                    !.battingBatch = IF bFull THEN <<>> ELSE bBatch,
                    !.pitchingBatch = IF pFull THEN <<>> ELSE pBatch,
                    !.battingRows = bRows, !.pitchingRows = pRows,
                    !.spc = IF L.fpos + 1 = Len(L.file)
                            THEN "flushB" ELSE "rows"]]
     /\ UNCHANGED <<procs, fantasy, teams, players, games, stats, batches, nextUuid,
                    runs, calls, faults>>

\* await insertBattingBatch() after the loop
StageFlushBatting(p) ==
  LET L == local[p]
  IN /\ L.spc = "flushB"
     /\ IF L.battingBatch = <<>>
        THEN UNCHANGED <<staging, nextSerial>>
        ELSE /\ staging' = [staging EXCEPT !["batting"] =
                  insertBatch(@, nextSerial["batting"], L.sBattingBatchId,
                              L.battingBatch, L.battingRows)]
             /\ nextSerial' = [nextSerial EXCEPT !["batting"] =
                  @ + Len(L.battingBatch)]
     /\ local' = [local EXCEPT ![p] =
          [L EXCEPT !.battingBatch = <<>>, !.spc = "flushP"]]
     /\ UNCHANGED <<procs, fantasy, teams, players, games, stats, batches, nextUuid,
                    runs, calls, faults>>

\* await insertPitchingBatch() after the loop, and the return
StageFlushPitching(p) ==
  LET L == local[p]
  IN /\ L.spc = "flushP"
     /\ IF L.pitchingBatch = <<>>
        THEN UNCHANGED <<staging, nextSerial>>
        ELSE /\ staging' = [staging EXCEPT !["pitching"] =
                  insertBatch(@, nextSerial["pitching"], L.sPitchingBatchId,
                              L.pitchingBatch, L.pitchingRows)]
             /\ nextSerial' = [nextSerial EXCEPT !["pitching"] =
                  @ + Len(L.pitchingBatch)]
     /\ local' = [local EXCEPT ![p] =
          [L EXCEPT !.pitchingBatch = <<>>, !.spc = "idle",
                    !.ipc = "inProgressB"]]
     /\ UNCHANGED <<procs, fantasy, teams, players, games, stats, batches, nextUuid,
                    runs, calls, faults>>

Idle(L) == L.ipc = "idle" /\ L.spc = "idle" /\ L.tpc = "idle"

\* loadBattingToStaging / loadPitchingToStaging called on a legacy file
LoadToStaging(p, type, f) ==
  LET L == local[p]
  IN /\ Idle(L)
     /\ calls < MaxCalls
     /\ calls' = calls + 1
     /\ nextUuid' = nextUuid + 1
     /\ local' = [local EXCEPT ![p] =
          [L EXCEPT !.spc = "legacy", !.stype = type, !.file = f,
                    !.fpos = 0, !.totalRows = 0, !.sBatchId = nextUuid,
                    !.sresult = NullNum]]
     /\ UNCHANGED <<procs, fantasy, teams, players, games, stats, staging, batches,
                    nextSerial, runs, faults>>

\* the rows read up to the next insertBatch() of the legacy writer, and
\* that insert
LegacyInsertBatch(p) ==
  LET L == local[p]
      left == Len(L.file) - L.fpos
      n == IF left < BATCH_SIZE THEN left ELSE BATCH_SIZE
      batch == SubSeq(L.file, L.fpos + 1, L.fpos + n)
  IN /\ L.spc = "legacy"
     /\ staging' = [staging EXCEPT ![L.stype] =
          insertBatch(@, nextSerial[L.stype], L.sBatchId, batch,
                      L.totalRows + n)]
     /\ nextSerial' = [nextSerial EXCEPT ![L.stype] = @ + n]
     /\ local' = [local EXCEPT ![p] =
          IF L.fpos + n = Len(L.file)
          THEN [L EXCEPT !.fpos = @ + n, !.totalRows = @ + n,
                         !.spc = "idle", !.sresult = L.totalRows + n]
          ELSE [L EXCEPT !.fpos = @ + n, !.totalRows = @ + n]]
     /\ UNCHANGED <<procs, fantasy, teams, players, games, stats, batches, nextUuid,
                    runs, calls, faults>>

\* transformData(sql, type, batchId) called on a staged batch
TransformData(p, type, b) ==
  LET L == local[p]
  IN /\ Idle(L)
     /\ calls < MaxCalls
     /\ \E i \in 1..Len(staging[type]) : staging[type][i].batch_id = b
     /\ calls' = calls + 1
     /\ local' = [local EXCEPT ![p] = TEnter(L, "caller", type, b)]
     /\ UNCHANGED <<procs, fantasy, store, runs, faults>>

\* the process running a stand-alone transform is interrupted inside a page
Crash(p) ==
  LET L == local[p]
  IN /\ L.tcaller = "caller"
     /\ L.tpc \in {"teams", "players", "games", "stats", "mark"}
     /\ faults < MaxFaults
     /\ faults' = faults + 1
     /\ local' = [local EXCEPT ![p] =
          [L EXCEPT !.tpc = "idle", !.terror = "interrupted"]]
     /\ UNCHANGED <<procs, fantasy, store, runs, calls>>

(***************************************************************************)
(* Orchestrator: ingestYears and ingestYear (unified playing file).        *)
(***************************************************************************)
Options ==
  { o \in [force : BOOLEAN, skipDownload : BOOLEAN,
           skipTransform : BOOLEAN, localFile : BOOLEAN] :
      ~(o.skipDownload /\ o.localFile) }

Year(L) == L.years[L.yi]

\* entry of ingestYear: the per-invocation locals
EnterIngestYear(L, i) ==
  [L EXCEPT !.ipc = "checkB", !.yi = i,
            !.battingExists = FALSE, !.pitchingExists = FALSE,
            !.battingBatchId = NullNum, !.pitchingBatchId = NullNum,
            !.battingTransform = NullNum, !.pitchingTransform = NullNum,
            !.errorMessage = NULL, !.result = NoResult, !.file = <<>>,
            !.entry = store]

\* ingestYears(sql, years, options) is called
IngestYears(p, ys, o) ==
  LET L == local[p]
  IN /\ Idle(L)
     /\ runs + Len(ys) <= MaxRuns
     /\ runs' = runs + Len(ys)
     /\ local' = [local EXCEPT ![p] =
          EnterIngestYear([L EXCEPT !.years = ys, !.options = o,
                                    !.results = <<>>], 1)]
     /\ UNCHANGED <<procs, fantasy, store, calls, faults>>

CheckBatting(p) ==
  LET L == local[p]
  IN /\ L.ipc = "checkB"
     /\ local' = [local EXCEPT ![p] =
          [L EXCEPT !.ipc = "checkP",
                    !.battingExists =
                       hasCompletedIngestion(batches, "batting", Year(L))]]
     /\ UNCHANGED <<procs, fantasy, store, runs, calls, faults>>

\* the second query, and the skip decision
CheckPitching(p) ==
  LET L == local[p]
      pitchingExists == hasCompletedIngestion(batches, "pitching", Year(L))
  IN /\ L.ipc = "checkP"
     /\ local' = [local EXCEPT ![p] =
          IF ~L.options.force /\ L.battingExists /\ pitchingExists
          THEN [L EXCEPT !.ipc = "push", !.pitchingExists = pitchingExists,
                         !.result = [NoResult EXCEPT !.year = Year(L),
                                                     !.skipped = TRUE]]
          ELSE [L EXCEPT !.ipc = "createB",
                         !.pitchingExists = pitchingExists]]
     /\ UNCHANGED <<procs, fantasy, store, runs, calls, faults>>

CreateBatting(p) ==
  LET L == local[p]
  IN /\ L.ipc = "createB"
     /\ batches' = createIngestionBatch(batches, nextUuid, "batting", Year(L))
     /\ nextUuid' = nextUuid + 1
     /\ local' = [local EXCEPT ![p] =
          [L EXCEPT !.ipc = "createP", !.battingBatchId = nextUuid]]
     /\ UNCHANGED <<procs, fantasy, teams, players, games, stats, staging,
                    nextSerial, runs, calls, faults>>

CreatePitching(p) ==
  LET L == local[p]
  IN /\ L.ipc = "createP"
     /\ batches' = createIngestionBatch(batches, nextUuid, "pitching", Year(L))
     /\ nextUuid' = nextUuid + 1
     /\ local' = [local EXCEPT ![p] =
          [L EXCEPT !.ipc = "download", !.pitchingBatchId = nextUuid]]
     /\ UNCHANGED <<procs, fantasy, teams, players, games, stats, staging,
                    nextSerial, runs, calls, faults>>

\* the file path is obtained; f is the content the path will be read to
Download(p, f) ==
  LET L == local[p]
  IN /\ L.ipc = "download"
     /\ local' = [local EXCEPT ![p] =
          IF ~L.options.localFile /\ L.options.skipDownload
          THEN [L EXCEPT !.ipc = "catchB", !.errorMessage =
                  "skipDownload specified but no localFile provided"]
          ELSE [L EXCEPT !.ipc = "stage", !.file = f]]
     /\ UNCHANGED <<procs, fantasy, store, runs, calls, faults>>

\* downloadPlayingFile rejects (the file is not available)
DownloadFails(p) ==
  LET L == local[p]
  IN /\ L.ipc = "download"
     /\ ~L.options.localFile /\ ~L.options.skipDownload
     /\ faults < MaxFaults
     /\ faults' = faults + 1
     /\ local' = [local EXCEPT ![p] =
          [L EXCEPT !.ipc = "catchB",
                    !.errorMessage = "Data not available (404 Not Found)"]]
     /\ UNCHANGED <<procs, fantasy, store, runs, calls>>

UpdateInProgressBatting(p) ==
  LET L == local[p]
  IN /\ L.ipc = "inProgressB"
     /\ batches' = updateIngestionBatch(batches, L.battingBatchId,
          [status |-> "in_progress", totalRows |-> L.battingRows,
           processedRows |-> NullNum, errorMessage |-> NULL])
     /\ local' = [local EXCEPT ![p] = [L EXCEPT !.ipc = "inProgressP"]]
     /\ UNCHANGED <<procs, fantasy, teams, players, games, stats, staging,
                    nextSerial, nextUuid, runs, calls, faults>>

UpdateInProgressPitching(p) ==
  LET L == local[p]
  IN /\ L.ipc = "inProgressP"
     /\ batches' = updateIngestionBatch(batches, L.pitchingBatchId,
          [status |-> "in_progress", totalRows |-> L.pitchingRows,
           processedRows |-> NullNum, errorMessage |-> NULL])
     /\ local' = [local EXCEPT ![p] =
          [L EXCEPT !.ipc = IF L.options.skipTransform
                            THEN "completeB" ELSE "transformB"]]
     /\ UNCHANGED <<procs, fantasy, teams, players, games, stats, staging,
                    nextSerial, nextUuid, runs, calls, faults>>

\* transformBattingData(sql, stagingResult.battingBatchId) is entered
TransformBatting(p) ==
  LET L == local[p]
  IN /\ L.ipc = "transformB"
     /\ local' = [local EXCEPT ![p] =
          TEnter([L EXCEPT !.ipc = "transforming"], "ingestYear",
                 "batting", L.sBattingBatchId)]
     /\ UNCHANGED <<procs, fantasy, store, runs, calls, faults>>

\* transformPitchingData(sql, stagingResult.pitchingBatchId) is entered
TransformPitching(p) ==
  LET L == local[p]
  IN /\ L.ipc = "transformP"
     /\ local' = [local EXCEPT ![p] =
          TEnter([L EXCEPT !.ipc = "transforming"], "ingestYear",
                 "pitching", L.sPitchingBatchId)]
     /\ UNCHANGED <<procs, fantasy, store, runs, calls, faults>>

\* a ?? b
Nullish(a, b) == IF a # NullNum THEN a ELSE b

CompleteBatting(p) ==
  LET L == local[p]
  IN /\ L.ipc = "completeB"
     /\ batches' = updateIngestionBatch(batches, L.battingBatchId,
          [status |-> "completed", totalRows |-> NullNum,
           processedRows |-> Nullish(L.battingTransform, L.battingRows),
           errorMessage |-> NULL])
     /\ local' = [local EXCEPT ![p] = [L EXCEPT !.ipc = "completeP"]]
     /\ UNCHANGED <<procs, fantasy, teams, players, games, stats, staging,
                    nextSerial, nextUuid, runs, calls, faults>>

CompletePitching(p) ==
  LET L == local[p]
  IN /\ L.ipc = "completeP"
     /\ batches' = updateIngestionBatch(batches, L.pitchingBatchId,
          [status |-> "completed", totalRows |-> NullNum,
           processedRows |-> Nullish(L.pitchingTransform, L.pitchingRows),
           errorMessage |-> NULL])
     /\ local' = [local EXCEPT ![p] = [L EXCEPT !.ipc = "clearB"]]
     /\ UNCHANGED <<procs, fantasy, teams, players, games, stats, staging,
                    nextSerial, nextUuid, runs, calls, faults>>

ClearBatting(p) ==
  LET L == local[p]
  IN /\ L.ipc = "clearB"
     /\ staging' = [staging EXCEPT !["batting"] =
                      clearStagingBatch(@, L.sBattingBatchId)]
     /\ local' = [local EXCEPT ![p] = [L EXCEPT !.ipc = "clearP"]]
     /\ UNCHANGED <<procs, fantasy, teams, players, games, stats, batches,
                    nextSerial, nextUuid, runs, calls, faults>>

\* the second clearStagingBatch, and the result of the try block
ClearPitching(p) ==
  LET L == local[p]
  IN /\ L.ipc = "clearP"
     /\ staging' = [staging EXCEPT !["pitching"] =
                      clearStagingBatch(@, L.sPitchingBatchId)]
     /\ local' = [local EXCEPT ![p] =
          [L EXCEPT !.ipc = "push",
             !.result =
                [year |-> Year(L), skipped |-> FALSE,
                 battingBatchId |-> L.battingBatchId,
                 pitchingBatchId |-> L.pitchingBatchId,
                 totalRows |-> L.totalRows,
                 battingRows |-> L.battingRows,
                 pitchingRows |-> L.pitchingRows,
                 battingTransform |-> L.battingTransform,
                 pitchingTransform |-> L.pitchingTransform,
                 error |-> NULL]]]
     /\ UNCHANGED <<procs, fantasy, teams, players, games, stats, batches,
                    nextSerial, nextUuid, runs, calls, faults>>

\* an awaited store or file operation inside the try block rejects
StepFails(p) ==
  LET L == local[p]
  IN /\ L.ipc \in {"staging", "inProgressB", "inProgressP", "transforming",
                   "completeB", "completeP", "clearB", "clearP"}
     /\ L.ipc = "transforming" => L.tpc \notin {"idle", "return"}
     /\ faults < MaxFaults
     /\ faults' = faults + 1
     /\ local' = [local EXCEPT ![p] =
          [L EXCEPT !.ipc = "catchB", !.spc = "idle", !.tpc = "idle",
                    !.errorMessage = "store error"]]
     /\ UNCHANGED <<procs, fantasy, store, runs, calls>>

CatchBatting(p) ==
  LET L == local[p]
  IN /\ L.ipc = "catchB"
     /\ batches' = updateIngestionBatch(batches, L.battingBatchId,
          [status |-> "failed", totalRows |-> NullNum,
           processedRows |-> NullNum, errorMessage |-> L.errorMessage])
     /\ local' = [local EXCEPT ![p] = [L EXCEPT !.ipc = "catchP"]]
     /\ UNCHANGED <<procs, fantasy, teams, players, games, stats, staging,
                    nextSerial, nextUuid, runs, calls, faults>>

\* the second failed update, and the result of the catch block
CatchPitching(p) ==
  LET L == local[p]
  IN /\ L.ipc = "catchP"
     /\ batches' = updateIngestionBatch(batches, L.pitchingBatchId,
          [status |-> "failed", totalRows |-> NullNum,
           processedRows |-> NullNum, errorMessage |-> L.errorMessage])
     /\ local' = [local EXCEPT ![p] =
          [L EXCEPT !.ipc = "push",
             !.result =
                [NoResult EXCEPT !.year = Year(L),
                                 !.battingBatchId = L.battingBatchId,
                                 !.pitchingBatchId = L.pitchingBatchId,
                                 !.error = L.errorMessage]]]
     /\ UNCHANGED <<procs, fantasy, teams, players, games, stats, staging,
                    nextSerial, nextUuid, runs, calls, faults>>

\* variant of the loop step that returns at the first failed year
IngestYearsNext_stopOnError(p) ==
  LET L == local[p]
      pushed == [L EXCEPT !.results = Append(@, L.result)]
  IN /\ L.ipc = "push"
     /\ local' = [local EXCEPT ![p] =
          IF L.yi = Len(L.years) \/ L.result.error # NULL
          THEN [pushed EXCEPT !.ipc = "idle"]
          ELSE EnterIngestYear(pushed, L.yi + 1)]
     /\ UNCHANGED <<procs, fantasy, store, runs, calls, faults>>

\* ingestYears: results.push(result), then the next year or the return
IngestYearsNext(p) ==
  LET L == local[p]
      pushed == [L EXCEPT !.results = Append(@, L.result)]
  IN /\ L.ipc = "push"
     /\ local' = [local EXCEPT ![p] =
          IF L.yi = Len(L.years)
          THEN [pushed EXCEPT !.ipc = "idle"]
          ELSE EnterIngestYear(pushed, L.yi + 1)]
     /\ UNCHANGED <<procs, fantasy, store, runs, calls, faults>>

(***************************************************************************)
(* Specifications.                                                         *)
(***************************************************************************)
\* the ingestion pipeline driven through ingestYears
Next ==
  \/ \E p \in procs, ys \in YearLists, o \in Options : IngestYears(p, ys, o)
  \/ \E p \in procs : CheckBatting(p)
  \/ \E p \in procs : CheckPitching(p)
  \/ \E p \in procs : CreateBatting(p)
  \/ \E p \in procs : CreatePitching(p)
  \/ \E p \in procs, f \in PlayingFiles : Download(p, f)
  \/ \E p \in procs : DownloadFails(p)
  \/ \E p \in procs : LoadPlayingToStagingBegin(p)
  \/ \E p \in procs : StageRow(p)
  \/ \E p \in procs : StageFlushBatting(p)
  \/ \E p \in procs : StageFlushPitching(p)
  \/ \E p \in procs : UpdateInProgressBatting(p)
  \/ \E p \in procs : UpdateInProgressPitching(p)
  \/ \E p \in procs : TransformBatting(p)
  \/ \E p \in procs : TransformPitching(p)
  \/ \E p \in procs : TSelect(p)
  \/ \E p \in procs : TUpsertTeams(p)
  \/ \E p \in procs : TUpsertPlayers(p)
  \/ \E p \in procs : TUpsertGame(p)
  \/ \E p \in procs : TUpsertStats(p)
  \/ \E p \in procs : TMarkProcessed(p)
  \/ \E p \in procs : TReturn(p)
  \/ \E p \in procs : CompleteBatting(p)
  \/ \E p \in procs : CompletePitching(p)
  \/ \E p \in procs : ClearBatting(p)
  \/ \E p \in procs : ClearPitching(p)
  \/ \E p \in procs : StepFails(p)
  \/ \E p \in procs : CatchBatting(p)
  \/ \E p \in procs : CatchPitching(p)
  \/ \E p \in procs : IngestYearsNext(p)

Spec == Init /\ [][Next]_vars

\* the staging writer and the Transformer called directly on legacy files
NextTransform ==
  \/ \E p \in procs, type \in DataType, f \in LegacyFiles :
       LoadToStaging(p, type, f)
  \/ \E p \in procs : LegacyInsertBatch(p)
  \/ \E p \in procs, type \in DataType, b \in 1..(nextUuid - 1) :
       TransformData(p, type, b)
  \/ \E p \in procs : TSelect(p)
  \/ \E p \in procs : TUpsertTeams(p)
  \/ \E p \in procs : TUpsertPlayers(p)
  \/ \E p \in procs : TUpsertGame(p)
  \/ \E p \in procs : TUpsertStats(p)
  \/ \E p \in procs : TMarkProcessed(p)
  \/ \E p \in procs : TReturn(p)
  \/ \E p \in procs : Crash(p)

SpecTransform == Init /\ [][NextTransform]_vars

(***************************************************************************)
(* loadPlayingToStaging alone, on files whose rows carry every kind of     *)
(* activity indicator: absent, zero, positive, not a number.               *)
(***************************************************************************)
Indicators == {NullStr, <<"0">>, <<"2">>, <<"x">>}

\* the files whose row i has indicators bg[i] and pg[i]; rows differ in
\* their player and their hit columns
IndicatorFiles ==
  LET PersonKeys == <<"p1", "p2", "p3", "p4", "p5">>
      IndicatorFile(bg, pg) ==
        [i \in 1..Len(bg) |->
           [game_key |-> "g1", person_key |-> PersonKeys[i],
            team_key |-> "A", opponent_key |-> "B", alignment |-> <<"1">>,
            site_key |-> "s1", B_G |-> bg[i], P_G |-> pg[i],
            B_H |-> <<Digits[i + 1]>>, P_H |-> <<Digits[i + 5]>>]]
  IN UNION { { IndicatorFile(bg, pg) : bg \in [1..n -> Indicators],
                                       pg \in [1..n -> Indicators] } :
             n \in 1..MaxRows }

\* ingestYear is about to call loadPlayingToStaging on some file
InitStaging ==
  /\ procs = {1}
  /\ teams = {}
  /\ players = {}
  /\ games = <<>>
  /\ stats = [d \in DataType |-> <<>>]
  /\ staging = [d \in DataType |-> <<>>]
  /\ batches = <<>>
  /\ nextSerial = [d \in DataType |-> 1]
  /\ nextUuid = 1
  /\ \E f \in IndicatorFiles :
       local = [p \in {1} |->
                  [LocalInit EXCEPT !.ipc = "stage", !.years = <<2020>>,
                                    !.yi = 1, !.file = f]]
  /\ runs = 1
  /\ calls = 0
  /\ faults = 0
  /\ fantasy = EmptyFantasy

NextStaging ==
  \/ \E p \in procs : LoadPlayingToStagingBegin(p)
  \/ \E p \in procs : StageRow(p)
  \/ \E p \in procs : StageFlushBatting(p)
  \/ \E p \in procs : StageFlushPitching(p)

SpecStaging == InitStaging /\ [][NextStaging]_vars

(***************************************************************************)
(* Two ingestYear invocations running concurrently against one store:      *)
(* every awaited statement is one step, and the steps of the two           *)
(* invocations interleave freely.                                          *)
(***************************************************************************)
Runners == {1, 2}

\* the playing file of a season, the same for every invocation
YearFile(year) ==
  IF year = 2020 THEN Cyclic(UnifiedListing, MaxRows)
  ELSE Cyclic(UnifiedListing2021, MaxRows)

\* both invocations have been called, the first one for 2020
InitConcurrent ==
  /\ procs = Runners
  /\ teams = {}
  /\ players = {}
  /\ games = <<>>
  /\ stats = [d \in DataType |-> <<>>]
  /\ staging = [d \in DataType |-> <<>>]
  /\ batches = <<>>
  /\ nextSerial = [d \in DataType |-> 1]
  /\ nextUuid = 1
  /\ \E y \in Years :
       local = [p \in Runners |->
                  EnterIngestYear(
                    [LocalInit EXCEPT !.years = IF p = 1 THEN <<2020>>
                                                ELSE <<y>>], 1)]
  /\ runs = 2
  /\ calls = 0
  /\ faults = 0
  /\ fantasy = EmptyFantasy

(***************************************************************************)
(* The multi-row INSERT ... SELECT unnest(ids) ON CONFLICT DO NOTHING of   *)
(* upsertTeams / upsertPlayers under concurrency.  The statement is its    *)
(* own transaction: it inserts its rows in array order, a row whose key    *)
(* is committed is skipped, and a row whose key another statement in       *)
(* flight has inserted waits for that statement to end.  The rows become   *)
(* visible when the statement ends.                                        *)
(***************************************************************************)
\* the ids of the statement of process p that are still to be inserted
PendingIds(p) ==
  LET L == local[p]
  IN IF L.tpc = "teams"
     THEN SelectSeq(L.tteamOrder,
                    LAMBDA id : ~IsBlank(id) /\ id \notin teams
                                /\ id \notin L.held)
     ELSE SelectSeq(L.tplayerOrder,
                    LAMBDA id : id \notin players /\ id \notin L.held)

InStatement(p) == local[p].tpc \in {"teams", "players"}

\* the next row of p's statement conflicts with a row that the statement
\* of q has inserted and not yet committed
WaitsFor(p, q) ==
  /\ p # q
  /\ InStatement(p)
  /\ local[q].tpc = local[p].tpc
  /\ PendingIds(p) # <<>>
  /\ Head(PendingIds(p)) \in local[q].held

\* the statement inserts its next new row
TInsertRow(p) ==
  LET L == local[p]
  IN /\ InStatement(p)
     /\ PendingIds(p) # <<>>
     /\ \A q \in procs : ~WaitsFor(p, q)
     /\ local' = [local EXCEPT ![p] =
          [L EXCEPT !.held = @ \cup {Head(PendingIds(p))}]]
     /\ UNCHANGED <<procs, fantasy, store, runs, calls, faults>>

\* the upsertTeams statement ends
TCommitTeams(p) ==
  LET L == local[p]
  IN /\ L.tpc = "teams"
     /\ PendingIds(p) = <<>>
     /\ teams' = upsertTeams(teams, SeqRange(L.tteamOrder))
     /\ local' = [local EXCEPT ![p] =
          [L EXCEPT !.tpc = "players", !.held = {}]]
     /\ UNCHANGED <<procs, fantasy, players, games, stats, staging, batches,
                    nextSerial, nextUuid, runs, calls, faults>>

\* the upsertPlayers statement ends
TCommitPlayers(p) ==
  LET L == local[p]
  IN /\ L.tpc = "players"
     /\ PendingIds(p) = <<>>
     /\ players' = upsertPlayers(players, SeqRange(L.tplayerOrder))
     /\ local' = [local EXCEPT ![p] =
          [L EXCEPT !.tpc = IF L.tgames = <<>> THEN "stats" ELSE "games",
                    !.gi = 1, !.si = 1, !.held = {}]]
     /\ UNCHANGED <<procs, fantasy, teams, games, stats, staging, batches,
                    nextSerial, nextUuid, runs, calls, faults>>

\* two statements wait for each other: the store aborts one of them with
\* "deadlock detected", which rolls its rows back and rejects the call
TDeadlock(p) ==
  LET L == local[p]
  IN /\ \E q \in procs : WaitsFor(p, q) /\ WaitsFor(q, p)
     /\ local' = [local EXCEPT ![p] =
          TransformThrows([L EXCEPT !.held = {}], "deadlock detected")]
     /\ UNCHANGED <<procs, fantasy, store, runs, calls, faults>>

NextConcurrent ==
  \/ \E p \in procs : CheckBatting(p)
  \/ \E p \in procs : CheckPitching(p)
  \/ \E p \in procs : CreateBatting(p)
  \/ \E p \in procs : CreatePitching(p)
  \/ \E p \in procs : Download(p, YearFile(Year(local[p])))
  \/ \E p \in procs : LoadPlayingToStagingBegin(p)
  \/ \E p \in procs : StageRow(p)
  \/ \E p \in procs : StageFlushBatting(p)
  \/ \E p \in procs : StageFlushPitching(p)
  \/ \E p \in procs : UpdateInProgressBatting(p)
  \/ \E p \in procs : UpdateInProgressPitching(p)
  \/ \E p \in procs : TransformBatting(p)
  \/ \E p \in procs : TransformPitching(p)
  \/ \E p \in procs : TSelect(p)
  \/ \E p \in procs : TInsertRow(p)
  \/ \E p \in procs : TCommitTeams(p)
  \/ \E p \in procs : TCommitPlayers(p)
  \/ \E p \in procs : TDeadlock(p)
  \/ \E p \in procs : TUpsertGame(p)
  \/ \E p \in procs : TUpsertStats(p)
  \/ \E p \in procs : TMarkProcessed(p)
  \/ \E p \in procs : TReturn(p)
  \/ \E p \in procs : CompleteBatting(p)
  \/ \E p \in procs : CompletePitching(p)
  \/ \E p \in procs : ClearBatting(p)
  \/ \E p \in procs : ClearPitching(p)
  \/ \E p \in procs : CatchBatting(p)
  \/ \E p \in procs : CatchPitching(p)
  \/ \E p \in procs : IngestYearsNext(p)

SpecConcurrent == InitConcurrent /\ [][NextConcurrent]_vars

(***************************************************************************)
(* An uninterrupted Transformer run as a function of the store it starts   *)
(* from: the reference the resumed runs are compared with.                 *)
(***************************************************************************)
RECURSIVE UpsertGamesAll(_, _, _)
\* the games loop; ok is FALSE when an upsert throws
UpsertGamesAll(G, T, gs) ==
  IF gs = <<>> THEN [ok |-> TRUE, games |-> G]
  ELSE IF Head(gs).game_id \in DOMAIN G \/ GameFKOk(T, Head(gs))
  THEN UpsertGamesAll(upsertGame(G, Head(gs)), T, Tail(gs))
  ELSE [ok |-> FALSE, games |-> G]

RECURSIVE UpsertStatsAll(_, _, _, _, _)
\* the stats loop; ok is FALSE when an upsert throws
UpsertStatsAll(S, T, P, G, rs) ==
  IF rs = <<>> THEN [ok |-> TRUE, stats |-> S]
  ELSE LET row == Head(rs)
       IN IF row.gid = "" \/ row.player_id = "" \/ row.team = ""
          THEN UpsertStatsAll(S, T, P, G, Tail(rs))
          ELSE IF StatsFKOk(T, P, G, StatsOf(row))
          THEN UpsertStatsAll(upsertStats(S, StatsOf(row)), T, P, G, Tail(rs))
          ELSE [ok |-> FALSE, stats |-> S]

RECURSIVE RunPages(_, _, _, _, _, _, _)
\* the while loop of the Transformer from the given offset and local sets;
\* N is the normalized store, St the staging table
RunPages(N, St, b, offset, tg, tp, tt) ==
  LET page == SelectPage(St, b, offset)
      idx == 1..Len(page)
      tp2 == tp \cup {page[i].player_id : i \in {j \in idx : page[j].player_id # ""}}
      tt2 == tt \cup {page[i].team : i \in {j \in idx : page[j].team # ""}}
                \cup {page[i].opp : i \in {j \in idx : page[j].opp # ""}}
      tg2 == CollectGames(tg, page)
      T2 == upsertTeams(N.teams, tt2)
      P2 == upsertPlayers(N.players, tp2)
      gres == UpsertGamesAll(N.games, T2, tg2)
      sres == UpsertStatsAll(N.stats, T2, P2, gres.games, page)
      rowIds == {page[i].id : i \in idx}
      St2 == [i \in 1..Len(St) |->
                IF St[i].id \in rowIds THEN [St[i] EXCEPT !.processed = TRUE]
                ELSE St[i]]
  IN IF page = <<>> THEN N
     ELSE IF ~gres.ok
     THEN [teams |-> T2, players |-> P2, games |-> gres.games,
           stats |-> N.stats]
     ELSE IF ~sres.ok
     THEN [teams |-> T2, players |-> P2, games |-> gres.games,
           stats |-> sres.stats]
     ELSE RunPages([teams |-> T2, players |-> P2, games |-> gres.games,
                    stats |-> sres.stats],
                   St2, b, offset + Len(page), tg2, tp2, tt2)

\* normalized store after one uninterrupted transform of batch b from snap
UninterruptedRun(snap, type, b) ==
  RunPages([teams |-> snap.teams, players |-> snap.players,
            games |-> snap.games, stats |-> snap.stats[type]],
           snap.staging[type], b, 0, <<>>, {}, {})

(***************************************************************************)
(* One ingestYear invocation that runs alone and without failure, as a     *)
(* function of the normalized store it starts from and of the file: the    *)
(* reference the concurrent invocations are compared with.                 *)
(***************************************************************************)
\* the rows loadPlayingToStaging derives from the file for one domain
DomainRows(file, type) ==
  LET sel == SelectSeq(file, LAMBDA r : IF type = "batting"
                                        THEN hasBattingStats(r)
                                        ELSE hasPitchingStats(r))
  IN [i \in 1..Len(sel) |-> IF type = "batting" THEN toBattingRow(sel[i])
                            ELSE toPitchingRow(sel[i])]

EmptyStore ==
  [teams |-> {}, players |-> {}, games |-> <<>>,
   stats |-> [d \in DataType |-> <<>>]]

\* staging, transformBattingData, then transformPitchingData
SingleRun(N, file) ==
  LET st == [d \in DataType |->
               insertBatch(<<>>, 1, 0, DomainRows(file, d),
                           Len(DomainRows(file, d)))]
      nb == UninterruptedRun([teams |-> N.teams, players |-> N.players,
                              games |-> N.games, stats |-> N.stats,
                              staging |-> st], "batting", 0)
      bstats == [N.stats EXCEPT !["batting"] = nb.stats]
      np == UninterruptedRun([teams |-> nb.teams, players |-> nb.players,
                              games |-> nb.games, stats |-> bstats,
                              staging |-> st], "pitching", 0)
  IN [teams |-> np.teams, players |-> np.players, games |-> np.games,
      stats |-> [bstats EXCEPT !["pitching"] = np.stats]]

\* the rows of a table without their order
SeqToBag(sq) ==
  [x \in SeqRange(sq) |-> Cardinality({i \in 1..Len(sq) : sq[i] = x})]

\* the normalized tables hold what N holds
SameNormalized(N) ==
  /\ teams = N.teams
  /\ players = N.players
  /\ games = N.games
  /\ \A d \in DataType : SeqToBag(stats[d]) = SeqToBag(N.stats[d])

\* the ingestYears call of process p has returned
Finished(p) == local[p].ipc = "idle" /\ Len(local[p].results) = 1

(***************************************************************************)
(* Properties.                                                             *)
(***************************************************************************)
\* a stand-alone transform of process p has returned normally
Returned(p) == local[p].tpc = "idle" /\ local[p].tresult # NullNum

Unprocessed(type, b) ==
  {i \in 1..Len(staging[type]) :
     staging[type][i].batch_id = b /\ ~staging[type][i].processed}

\* C1: once a Transformer run over a staged batch has returned, no row of
\* that batch is left with processed = false (so a second run has nothing
\* to process), whatever the size of the batch.
C1_CompleteRunLeavesNoUnprocessedRow ==
  \A p \in procs :
    Returned(p) => Unprocessed(local[p].ttype, local[p].batchId) = {}

\* C2: the store never holds two batter stat records or two pitcher stat
\* records with the same (game_id, player_id, stat_type), an absent
\* stat_type included.
C2_OneStatRecordPerKey ==
  \A d \in DataType : \A i, j \in 1..Len(stats[d]) :
    (/\ stats[d][i].game_id = stats[d][j].game_id
     /\ stats[d][i].player_id = stats[d][j].player_id
     /\ stats[d][i].stat_type = stats[d][j].stat_type) => i = j

\* C3: when a Transformer run that was re-invoked on a batch after an
\* interrupted run returns, teams, players, games and stat records are
\* those an uninterrupted run over that batch would have left.
C3_ResumedRunEqualsUninterruptedRun ==
  \A p \in procs :
    (Returned(p) /\ local[p].resumed) =>
      LET L == local[p]
          ref == UninterruptedRun(L.snap, L.ttype, L.batchId)
      IN /\ teams = ref.teams
         /\ players = ref.players
         /\ games = ref.games
         /\ stats[L.ttype] = ref.stats
         /\ \A d \in DataType \ {L.ttype} : stats[d] = L.snap.stats[d]

\* C4: for every staged row the Transformer has processed, the stored game
\* of that row has has_box (has_pbp) true if the row asserts it.
C4_GameFlagsOrMerged ==
  \A d \in DataType : \A i \in 1..Len(staging[d]) :
    LET row == staging[d][i]
    IN (row.processed /\ row.gid # "") =>
         /\ row.gid \in DOMAIN games
         /\ parseBool(row.box) => games[row.gid].has_box
         /\ (row.pbp = <<"y">> \/ row.pbp = <<"d">>) => games[row.gid].has_pbp

\* C5: a batch whose status is completed or failed keeps that status in
\* every step of the pipeline.
C5_TerminalStatusIsFinal ==
  [][\A b \in DOMAIN batches :
       batches[b].status \in {"completed", "failed"} =>
         batches'[b].status = batches[b].status]_vars

\* C6: every staging row that a step deletes has processed = true.
C6_OnlyProcessedRowsPurged ==
  [][\A d \in DataType : \A i \in 1..Len(staging[d]) :
       (\A j \in 1..Len(staging'[d]) : staging'[d][j].id # staging[d][i].id)
         => staging[d][i].processed]_vars

\* a completed batch of the domain and year is recorded in table B
CompletedAt(B, type, year) ==
  \E id \in DOMAIN B :
    /\ B[id].source_type = type
    /\ B[id].year = year
    /\ B[id].status = "completed"

\* C7: an ingestYear invocation returns a skipped result exactly when force
\* is not set and both domains had a completed batch for the year when it
\* was entered, and then the whole store is as it was on entry and the
\* result carries nothing but the year.
C7_SkipIffCompletedAndNoWrite ==
  \A p \in procs :
    local[p].ipc = "push" =>
      LET L == local[p]
          both == /\ CompletedAt(L.entry[6], "batting", Year(L))
                  /\ CompletedAt(L.entry[6], "pitching", Year(L))
      IN /\ L.result.skipped <=> (~L.options.force /\ both)
         /\ L.result.skipped =>
              /\ store = L.entry
              /\ L.result = [NoResult EXCEPT !.year = Year(L),
                                             !.skipped = TRUE]

\* C7 witness: an invocation over a year with completed batches was skipped
C7_Witness ==
  \E p \in procs :
    /\ local[p].ipc = "push"
    /\ local[p].result.skipped
    /\ CompletedAt(batches, "batting", Year(local[p]))

\* C8: when a step of the try block of ingestYear has thrown, the
\* invocation ends with both of its batches failed with the captured
\* message, and its result carries the message and is not skipped.
C8_FailureMarksBothBatchesFailed ==
  \A p \in procs :
    (local[p].ipc = "push" /\ local[p].errorMessage # NULL) =>
      LET L == local[p]
      IN /\ batches[L.battingBatchId].status = "failed"
         /\ batches[L.battingBatchId].error_message = L.errorMessage
         /\ batches[L.pitchingBatchId].status = "failed"
         /\ batches[L.pitchingBatchId].error_message = L.errorMessage
         /\ L.result.error = L.errorMessage
         /\ ~L.result.skipped

\* C8 witness: the staging cleanup threw after both batches were completed
C8_Witness ==
  \E p \in procs :
    /\ local[p].ipc = "push"
    /\ local[p].errorMessage = "store error"
    /\ batches[local[p].battingBatchId].completed_at
    /\ batches[local[p].pitchingBatchId].completed_at

\* C9: ingestYears yields one result per requested year, in order; an
\* invocation that failed left both of its batches, of that year, failed
\* with its message, and every other invocation that ran left its batches
\* completed.
C9_OneResultPerYear ==
  \A p \in procs :
    LET L == local[p]
    IN L.years # <<>> =>
         /\ Len(L.results) = IF L.ipc = "idle" THEN Len(L.years) ELSE L.yi - 1
         /\ \A i \in 1..Len(L.results) :
              LET r == L.results[i]
              IN /\ r.year = L.years[i]
                 /\ r.error # NULL =>
                      \A b \in {r.battingBatchId, r.pitchingBatchId} :
                        /\ batches[b].status = "failed"
                        /\ batches[b].error_message = r.error
                        /\ batches[b].year = L.years[i]
                 /\ (r.error = NULL /\ ~r.skipped) =>
                      \A b \in {r.battingBatchId, r.pitchingBatchId} :
                        /\ batches[b].status = "completed"
                        /\ batches[b].year = L.years[i]

\* C9 witness: the first of two years failed at retrieval and the second
\* was ingested
C9_Witness ==
  \E p \in procs :
    LET L == local[p]
    IN /\ L.ipc = "idle"
       /\ Len(L.years) = 2
       /\ Len(L.results) = 2
       /\ L.years[1] # L.years[2]
       /\ L.results[1].error = "Data not available (404 Not Found)"
       /\ L.results[2].error = NULL
       /\ ~L.results[2].skipped

\* C10: a batch is created pending, becomes in_progress only from pending
\* and together with a known total_rows, and becomes completed or failed
\* only from in_progress.
C10_BatchLifecycle ==
  [][/\ \A b \in DOMAIN batches' \ DOMAIN batches :
          batches'[b].status = "pending"
     /\ \A b \in DOMAIN batches :
          batches'[b].status # batches[b].status =>
            \/ /\ batches[b].status = "pending"
               /\ batches'[b].status = "in_progress"
               /\ batches'[b].total_rows # NullNum
            \/ /\ batches[b].status = "in_progress"
               /\ batches'[b].status \in {"completed", "failed"}]_vars

\* the two concurrent invocations are for the same year / for two years
SameYear == local[1].years = local[2].years

\* C11: when two concurrent ingestYear invocations for the same year, both
\* without force, have finished, teams, players, games and stat records
\* are those that a single run leaves.
C11_ConcurrentSameYearEqualsSingleRun ==
  (procs = Runners /\ SameYear /\ \A p \in procs : Finished(p)) =>
    SameNormalized(SingleRun(EmptyStore, YearFile(2020)))

\* the normalized store after the two years were ingested one after the
\* other, ys giving the order
Sequential(ys) ==
  SingleRun(SingleRun(EmptyStore, YearFile(ys[1])), YearFile(ys[2]))

\* number of stat rows the sequential ingestion adds for a year and domain
\* (a unified row carries no stat_type, so every processed row adds one)
SequentialProcessed(year, d) ==
  IF year = 2020
  THEN Len(SingleRun(EmptyStore, YearFile(2020)).stats[d])
  ELSE Len(Sequential(<<2020, 2021>>).stats[d])
         - Len(SingleRun(EmptyStore, YearFile(2020)).stats[d])

\* C12: two concurrent ingestYear invocations for different years never
\* fail, and once both have finished the normalized tables and each
\* year's batch status and row counts are those of ingesting the two years
\* one after the other, in either order.
C12_ConcurrentDisjointYearsEqualSequential ==
  (procs = Runners /\ ~SameYear) =>
    /\ \A p \in procs :
         /\ local[p].errorMessage = NULL
         /\ local[p].ipc \notin {"catchB", "catchP"}
    /\ (\A p \in procs : Finished(p)) =>
         /\ SameNormalized(Sequential(<<2020, 2021>>))
         /\ SameNormalized(Sequential(<<2021, 2020>>))
         /\ \A p \in procs :
              LET r == local[p].results[1]
                  bb == batches[r.battingBatchId]
                  pb == batches[r.pitchingBatchId]
                  f == YearFile(r.year)
              IN /\ r.error = NULL /\ ~r.skipped
                 /\ r.year = local[p].years[1]
                 /\ bb.status = "completed" /\ pb.status = "completed"
                 /\ bb.year = r.year /\ pb.year = r.year
                 /\ bb.source_type = "batting"
                 /\ pb.source_type = "pitching"
                 /\ bb.total_rows = Len(DomainRows(f, "batting"))
                 /\ pb.total_rows = Len(DomainRows(f, "pitching"))
                 /\ bb.processed_rows = SequentialProcessed(r.year, "batting")
                 /\ pb.processed_rows =
                      SequentialProcessed(r.year, "pitching")
                 /\ r.battingRows = bb.total_rows
                 /\ r.pitchingRows = pb.total_rows
                 /\ r.totalRows = Len(f)

\* C13: in every step, a game that exists keeps every column but has_box
\* and has_pbp (site, home and away team; game_date, game_number and
\* game_type are written by the same INSERT and by no UPDATE), and neither
\* flag goes from true to false.
C13_GameIdentityImmutable ==
  [][\A g \in DOMAIN games :
       /\ g \in DOMAIN games'
       /\ [games'[g] EXCEPT !.has_box = games[g].has_box,
                            !.has_pbp = games[g].has_pbp] = games[g]
       /\ games[g].has_box => games'[g].has_box
       /\ games[g].has_pbp => games'[g].has_pbp]_vars

\* C13 witness: a row naming another site and no play-by-play was
\* processed for a game that had been stored with site s1 and has_pbp
C13_Witness ==
  /\ "g1" \in DOMAIN games
  /\ games["g1"].site = "s1"
  /\ games["g1"].has_pbp
  /\ \E p \in procs :
       /\ local[p].tpc = "stats"
       /\ local[p].tgames # <<>>
       /\ local[p].tgames[1].game_id = "g1"
       /\ local[p].tgames[1].site = "s2"
       /\ ~local[p].tgames[1].has_pbp

\* C14: no write of the Transformer is rejected for a missing referenced
\* team, player or game: teams and players are written before the games
\* and stat records that name them.
C14_NoReferentialViolation ==
  \A p \in procs :
    /\ local[p].terror # "foreign key violation"
    /\ local[p].errorMessage # "foreign key violation"

\* the indicator parses to an integer greater than 0
Active(ind) == ~parseInt(ind).nan /\ parseInt(ind).n > 0

\* the staged rows of batch b are the given source rows, in order
StagedAre(St, b, rows, hits) ==
  LET staged == SelectSeq(St, LAMBDA r : r.batch_id = b)
  IN /\ Len(staged) = Len(rows)
     /\ \A i \in 1..Len(rows) :
          /\ staged[i].gid = rows[i].game_key
          /\ staged[i].player_id = rows[i].person_key
          /\ staged[i].team = rows[i].team_key
          /\ staged[i].opp = rows[i].opponent_key
          /\ staged[i].h = rows[i][hits]
          /\ staged[i].row_num = i
          /\ ~staged[i].processed

Rule(stat, points, perUnit) ==
  [stat |-> stat, points |-> points, perUnit |-> perUnit]
Condition(stat, op, value) == [stat |-> stat, op |-> op, value |-> value]
Bonus(name, conditions, logic, points) ==
  [name |-> name, conditions |-> conditions, logic |-> logic,
   points |-> points]

\* a BatterGameStats row without a plate appearance; the columns left out
\* are booleans and strings like the ones kept
ZeroBatter ==
  [n \in DOMAIN BattingStatMapping |-> Num(0)]
    @@ [n \in {"player_id", "team_id"} |-> Str]
    @@ [n \in {"is_home", "is_dh"} |-> Bool(FALSE)]
    @@ [n \in {"lineup_position", "team_won"} |-> Null]

\* a PitcherGameStats row of a pitcher who faced no batter
ZeroPitcher ==
  [n \in {"outs_pitched", "batters_faced", "hits_allowed",
          "doubles_allowed", "triples_allowed", "home_runs_allowed",
          "runs_allowed", "earned_runs", "walks", "intentional_walks",
          "strikeouts", "hit_batters", "wild_pitches", "balks",
          "sacrifice_hits_allowed", "sacrifice_flies_allowed",
          "stolen_bases_allowed", "caught_stealing"} |-> Num(0)]
    @@ [n \in {"player_id", "team_id"} |-> Str]
    @@ [n \in {"is_home", "won", "lost", "saved", "game_started",
               "game_finished", "complete_game"} |-> Bool(FALSE)]
    @@ [n \in {"team_won"} |-> Null]

\* the record of the test "should calculate points for a basic hitting
\* game", every stat outside the seven scored ones being 0
BasicHittingGame ==
  [ZeroBatter EXCEPT !["hits"] = Num(3), !["doubles"] = Num(1),
                     !["home_runs"] = Num(1), !["runs"] = Num(2),
                     !["runs_batted_in"] = Num(3), !["walks"] = Num(1),
                     !["strikeouts"] = Num(1)]

BatterRecords ==
  { [ZeroBatter EXCEPT !["hits"] = Num(h), !["runs"] = Num(r),
                       !["is_home"] = Bool(b), !["lineup_position"] = lp] :
      h \in 0..MaxStat, r \in {0, 2}, b \in BOOLEAN, lp \in {Null, Num(3)} }
    \cup {BasicHittingGame}

PitcherRecords ==
  { [ZeroPitcher EXCEPT !["outs_pitched"] = Num(o),
                        !["runs_allowed"] = Num(r),
                        !["complete_game"] = Bool(c),
                        !["saved"] = Bool(s),
                        !["is_home"] = Bool(b)] :
      o \in {0, 7, 27}, r \in 0..MaxStat, c \in BOOLEAN, s \in BOOLEAN,
      b \in BOOLEAN }

\* the seven batting rules of the standard preset that the test expects
StandardBatting ==
  << Rule("runs", 100, 0), Rule("hits", 50, 0), Rule("doubles", 50, 0),
     Rule("home_runs", 400, 0), Rule("runs_batted_in", 100, 0),
     Rule("walks", 100, 0), Rule("strikeouts", -50, 0) >>

\* the rulesets in use: batting rules, pitching rules and bonuses combined
Rulesets ==
  LET BattingRuleLists ==
        { StandardBatting,
          << Rule("hits", 50, 0), Rule("rbi", 100, 0),
             Rule("is_home", 200, 0), Rule("lineup_position", 10, 0) >>,
          << Rule("hits", 0, 0), Rule("runs", -125, 2),
             Rule("player_id", 100, 0), Rule("team_won", 100, 0) >>,
          <<>> }
      PitchingRuleLists ==
        { << Rule("innings_pitched", 100, 3), Rule("runs_allowed", -100, 0),
             Rule("save", 500, 0) >>,
          << Rule("outs_pitched", 33, 0), Rule("era", 100, 0),
             Rule("complete_game", 250, 0), Rule("is_home", 100, 0) >> }
      BigGame == << Condition("hits", "gte", 2),
                    Condition("runs", "gte", 2) >>
      Shutout == << Condition("complete_game", "eq", 1),
                    Condition("runs_allowed", "lt", 1) >>
      BonusLists ==
        { <<>>,
          << Bonus("big_game", BigGame, "AND", 300),
             Bonus("shutout", Shutout, "AND", 500) >>,
          << Bonus("big_game", BigGame, "AND", 300),
             Bonus("good_game", BigGame, "OR", 150),
             Bonus("shutout", Shutout, "AND", 500),
             Bonus("clean", Shutout, "OR", 200),
             Bonus("home", << Condition("is_home", "eq", 1) >>, "AND", 100),
             Bonus("free", <<>>, "AND", 50),
             Bonus("always", << Condition("toString", "eq", 0) >>, "AND",
                   75),
             Bonus("quiet", << Condition("is_home", "eq", 1),
                               Condition("strikeouts", "lt", 1),
                               Condition("rbi", "ne", 0) >>, "OR", -100) >> }
  IN { [id |-> "standard", batting |-> b, pitching |-> p, bonuses |-> bo] :
         b \in BattingRuleLists, p \in PitchingRuleLists,
         bo \in BonusLists }

ScoreOf(p) == local[p].score

InitCalc ==
  /\ procs = {1}
  /\ teams = {}
  /\ players = {}
  /\ games = <<>>
  /\ stats = [d \in DataType |-> <<>>]
  /\ staging = [d \in DataType |-> <<>>]
  /\ batches = <<>>
  /\ nextSerial = [d \in DataType |-> 1]
  /\ nextUuid = 1
  /\ runs = 0
  /\ calls = 0
  /\ faults = 0
  /\ fantasy = EmptyFantasy
  /\ \E d \in DataType, r \in Rulesets :
       \E s \in IF d = "batting" THEN BatterRecords ELSE PitcherRecords :
          local = [p \in {1} |->
                     [LocalInit EXCEPT
                        !.score = [NoScore EXCEPT !.pc = "calc",
                                                  !.domain = d, !.stats = s,
                                                  !.ruleset = r]]]

\* one call of calculateBattingPoints or of calculatePitchingPoints; the
\* caller may evaluate the same record and ruleset again
Calculate(p) ==
  /\ ScoreOf(p).pc \in {"calc", "calculated"}
  /\ calls < MaxCalls
  /\ calls' = calls + 1
  /\ local' = [local EXCEPT ![p].score =
                 [@ EXCEPT !.pc = "calculated",
                           !.result =
                              IF ScoreOf(p).domain = "batting"
                              THEN calculateBattingPoints(
                                     ScoreOf(p).stats, ScoreOf(p).ruleset)
                              ELSE calculatePitchingPoints(
                                     ScoreOf(p).stats, ScoreOf(p).ruleset)]]
  /\ UNCHANGED <<procs, fantasy, store, runs, faults>>

NextCalc == \E p \in procs : Calculate(p)

SpecCalc == InitCalc /\ [][NextCalc]_vars

\* the call of process p has produced its result
Calculated(p) == ScoreOf(p).pc = "calculated"
\* the rules and the stat-name table of the domain of that call
DomainRules(p) ==
  IF ScoreOf(p).domain = "batting" THEN ScoreOf(p).ruleset.batting
  ELSE ScoreOf(p).ruleset.pitching
DomainMapping(p) ==
  IF ScoreOf(p).domain = "batting" THEN BattingStatMapping
  ELSE PitchingStatMapping
\* the breakdown entries of a result that carry the given stat name
EntriesOf(result, stat) ==
  {j \in 1..Len(result.breakdown) : result.breakdown[j].stat = stat}

\* the property of the record that a rule reads
Resolved(p, rule) ==
  Prop(ScoreOf(p).stats,
       IF rule.stat \in DOMAIN DomainMapping(p)
       THEN DomainMapping(p)[rule.stat] ELSE rule.stat)
\* 0, false, null or absent
ZeroOrAbsent(value) ==
  \/ value.t \in {"null", "undefined"}
  \/ value.t \in {"number", "boolean"} /\ value.v = 0

\* C17: a rule whose stat name is not in the stat-name table of the domain
\* contributes nothing for every record: no breakdown entry carries its
\* name, and the result is the result of the ruleset without such rules
\* (no points, no NaN), whether or not the name is another field of the
\* record.
C17_UnknownStatContributesNothing ==
  \A p \in procs :
     Calculated(p) =>
       LET rules == DomainRules(p)
           known == SelectSeq(rules, LAMBDA r :
                                r.stat \in DOMAIN DomainMapping(p))
       IN /\ \A i \in 1..Len(rules) :
                rules[i].stat \notin DOMAIN DomainMapping(p)
                  => EntriesOf(ScoreOf(p).result, rules[i].stat) = {}
          /\ ScoreOf(p).result =
                ScoringResult(ScoreOf(p).stats, known,
                              ScoreOf(p).ruleset.bonuses, DomainMapping(p))

\* C18: for every rule and record, a stat whose resolved value is 0, false,
\* null or absent produces no breakdown entry (and so no points) whatever
\* the weight of the rule, every rule whose resolved value is non-zero
\* produces exactly one entry, and the total is the sum of the entries.
C18_ZeroValueNoEntry ==
  \A p \in procs :
     Calculated(p) =>
       /\ \A i \in 1..Len(DomainRules(p)) :
             Cardinality(EntriesOf(ScoreOf(p).result,
                                   DomainRules(p)[i].stat))
               = IF ZeroOrAbsent(Resolved(p, DomainRules(p)[i])) THEN 0
                 ELSE 1
       /\ ScoreOf(p).result.totalPoints
            = SumPoints(ScoreOf(p).result.breakdown)

\* a call whose ruleset has a rule of non-zero weight on a zero stat and a
\* rule on a non-zero stat
C18_Witness ==
  \E p \in procs :
     /\ Calculated(p)
     /\ \E i, j \in 1..Len(DomainRules(p)) :
          /\ ZeroOrAbsent(Resolved(p, DomainRules(p)[i]))
          /\ Resolved(p, DomainRules(p)[i]).t = "number"
          /\ DomainRules(p)[i].points # 0
          /\ ~ZeroOrAbsent(Resolved(p, DomainRules(p)[j]))
          /\ EntriesOf(ScoreOf(p).result, DomainRules(p)[j].stat) # {}

\* the conditions of a bonus, each evaluated against the record of the
\* call, combined with the combinator the bonus declares
Satisfied(p, bonus) ==
  IF bonus.logic = "AND"
  THEN \A i \in 1..Len(bonus.conditions) :
          ConditionResult(ScoreOf(p).stats, bonus.conditions[i])
  ELSE \E i \in 1..Len(bonus.conditions) :
          ConditionResult(ScoreOf(p).stats, bonus.conditions[i])

\* C19: a bonus relevant to the domain of the record is applied iff all of
\* its conditions hold (AND) or at least one holds (OR); an applied bonus
\* adds its points to the total once, has its name once in bonusesApplied
\* and has one bonus:<name> breakdown entry; a bonus not applied changes
\* nothing.
C19_BonusCombinator ==
  \A p \in procs :
     Calculated(p) =>
       LET R == ScoreOf(p).result
           bonuses == ScoreOf(p).ruleset.bonuses
           applied == SelectSeq(bonuses, LAMBDA b :
                                  IsDomainBonus(b, DomainMapping(p))
                                  /\ Satisfied(p, b))
       IN /\ \A i \in 1..Len(bonuses) :
                IsDomainBonus(bonuses[i], DomainMapping(p)) =>
                  LET e == EntriesOf(R, "bonus:" \o bonuses[i].name)
                      a == {j \in 1..Len(R.bonusesApplied) :
                              R.bonusesApplied[j] = bonuses[i].name}
                  IN IF Satisfied(p, bonuses[i])
                     THEN /\ Cardinality(e) = 1
                          /\ Cardinality(a) = 1
                          /\ \A j \in e :
                                R.breakdown[j].points = bonuses[i].points
                     ELSE e = {} /\ a = {}
          /\ R.totalPoints
               = SumPoints(ApplyRules(ScoreOf(p).stats, DomainRules(p),
                                      DomainMapping(p)))
                 + SumPoints(applied)

\* a call in which, of two bonuses with the same two conditions of which
\* one holds, the OR bonus is applied and the AND bonus is not
C19_Witness ==
  \E p \in procs :
     /\ Calculated(p)
     /\ \E i, j \in 1..Len(ScoreOf(p).ruleset.bonuses) :
          LET and == ScoreOf(p).ruleset.bonuses[i]
              or == ScoreOf(p).ruleset.bonuses[j]
          IN /\ and.logic = "AND" /\ or.logic = "OR"
             /\ and.conditions = or.conditions
             /\ IsDomainBonus(and, DomainMapping(p))
             /\ ~Satisfied(p, and) /\ Satisfied(p, or)
             /\ EntriesOf(ScoreOf(p).result, "bonus:" \o or.name) # {}
             /\ EntriesOf(ScoreOf(p).result, "bonus:" \o and.name) = {}

\* the basic hitting game has been scored against the seven standard rules
BasicHittingGameScored(p) ==
  /\ Calculated(p)
  /\ ScoreOf(p).domain = "batting"
  /\ ScoreOf(p).stats = BasicHittingGame
  /\ ScoreOf(p).ruleset.batting = StandardBatting
  /\ ScoreOf(p).ruleset.bonuses = <<>>

\* C20: the batting record hits 3, doubles 1, home_runs 1, runs 2, rbi 3,
\* walks 1, strikeouts 1 (every other stat 0) scored against the rules
\* runs 1, hits 0.5, doubles 0.5, home_runs 4, rbi 1, walks 1,
\* strikeouts -0.5 gives totalPoints 11.5 and exactly 7 breakdown entries
\* (rbi being the column runs_batted_in of the record and of the rule).
C20_BasicHittingGame ==
  \A p \in procs :
     BasicHittingGameScored(p) =>
       /\ ScoreOf(p).result.totalPoints = 1150
       /\ ~ScoreOf(p).result.nan
       /\ Len(ScoreOf(p).result.breakdown) = 7

C20_Witness ==
  \E p \in procs :
     BasicHittingGameScored(p) /\ ScoreOf(p).result.totalPoints = 1150

(***************************************************************************)
(* scoreGame: the game is looked up, then the batter rows and the pitcher  *)
(* rows of the game are scored one by one and each result is upserted.     *)
(***************************************************************************)
\* a row of batter_game_stats / pitcher_game_stats with its sequence column
StatRow(gid, pid, type, seq, home, hits) ==
  [game_id |-> gid, player_id |-> pid,
   team_id |-> IF home THEN "A" ELSE "B", is_home |-> home,
   opponent_id |-> IF home THEN "B" ELSE "A", hits |-> hits,
   stat_type |-> type, seq |-> seq]

\* the row as the record the scoring engine receives
RecordOf(d, row) ==
  IF d = "batting"
  THEN [ZeroBatter EXCEPT !["hits"] = Num(row.hits),
                          !["is_home"] = Bool(row.is_home)]
  ELSE [ZeroPitcher EXCEPT !["hits_allowed"] = Num(row.hits),
                           !["is_home"] = Bool(row.is_home)]

\* a may precede b under ORDER BY seq, player_id (ascending, NULL last);
\* rank is the collation order of the player ids in use
OrderedBy(a, b) ==
  LET rank == [id \in {"p1", "p2", "p3"} |->
                 CASE id = "p1" -> 1 [] id = "p2" -> 2 [] OTHER -> 3]
  IN IF a.seq # b.seq
     THEN b.seq = NullNum \/ (a.seq # NullNum /\ a.seq < b.seq)
     ELSE rank[a.player_id] <= rank[b.player_id]

\* getBatterStatsByGame / getPitcherStatsByGame: the results the statement
\* can return.  Rows that agree on seq and player_id come in an order the
\* statement leaves to the executor.
getStatsByGame(S, gameId) ==
  LET idx == {i \in 1..Len(S) : S[i].game_id = gameId}
      n == Cardinality(idx)
      orders == {f \in [1..n -> idx] :
                   /\ \A a, b \in 1..n : a # b => f[a] # f[b]
                   /\ \A a, b \in 1..n :
                        a < b => OrderedBy(S[f[a]], S[f[b]])}
  IN { [k \in 1..n |-> S[f[k]]] : f \in orders }

\* the key of UNIQUE(ruleset_id, game_id, player_id, stat_type)
PointsKey(r) == <<r.ruleset_id, r.game_id, r.player_id, r.stat_type>>

\* fantasy.ts: upsertFantasyGamePoints; the four key columns are NOT NULL
upsertFantasyGamePoints(FP, points) ==
  IF \E i \in 1..Len(FP) : PointsKey(FP[i]) = PointsKey(points)
  THEN [i \in 1..Len(FP) |->
          IF PointsKey(FP[i]) = PointsKey(points)
          THEN [FP[i] EXCEPT !.total_points = points.total_points,
                             !.nan = points.nan,
                             !.breakdown = points.breakdown]
          ELSE FP[i]]
  ELSE Append(FP, points)

\* fantasy.ts: upsertRuleset
upsertRuleset(FR, ruleset) ==
  [id \in DOMAIN FR \cup {ruleset.id} |->
     IF id = ruleset.id THEN ruleset ELSE FR[id]]

\* the rulesets in use: the seeded one, a revision of it, and a second one
ScoreRulesets ==
  { [id |-> "standard", batting |-> << Rule("hits", 50, 0) >>,
     pitching |-> << Rule("hits_allowed", -50, 0) >>, bonuses |-> <<>>],
    [id |-> "standard", batting |-> << Rule("hits", 100, 0) >>,
     pitching |-> << Rule("hits_allowed", -50, 0) >>, bonuses |-> <<>>],
    [id |-> "custom", batting |-> << Rule("hits", 100, 0) >>,
     pitching |-> <<>>,
     bonuses |-> << Bonus("big_game",
                          << Condition("hits", "gte", 2) >>, "AND", 300) >>]
  }

\* The tables as ingestion leaves them: one record per player and game, or
\* for one player the two records 'value' and 'official' of one game, which
\* UNIQUE(game_id, player_id, stat_type) keeps apart.  The standard ruleset
\* is not seeded yet.
InitScore ==
  /\ procs = {1}
  /\ teams = {"A", "B"}
  /\ players = {"p1", "p2"}
  /\ games = [g \in {"g1", "g2"} |->
                [game_id |-> g, site |-> NULL, home_team_id |-> "A",
                 away_team_id |-> "B", has_box |-> FALSE,
                 has_pbp |-> FALSE]]
  /\ LET BatterTables ==
          { << StatRow("g1", "p1", "value", 1, TRUE, h),
               StatRow("g1", "p2", "value", 1, FALSE, 1),
               StatRow("g2", "p1", NULL, NullNum, TRUE, 1) >> :
              h \in 0..MaxStat }
          \cup
          { << StatRow("g1", "p1", "value", 1, TRUE, h),
               StatRow("g1", "p1", "official", 1, TRUE, k) >> :
              h \in {1, 2}, k \in {1, 2} }
         PitcherTables ==
          { <<>>,
            << StatRow("g1", "p2", "value", 1, FALSE, 2),
               StatRow("g1", "p1", "value", 2, TRUE, 0) >> }
     IN \E bt \in BatterTables, pt \in PitcherTables :
          stats = [d \in DataType |-> IF d = "batting" THEN bt ELSE pt]
  /\ staging = [d \in DataType |-> <<>>]
  /\ batches = <<>>
  /\ nextSerial = [d \in DataType |-> 1]
  /\ nextUuid = 1
  /\ local = [p \in {1} |-> LocalInit]
  /\ runs = 0
  /\ calls = 0
  /\ faults = 0
  /\ fantasy = EmptyFantasy

\* seedStandardRuleset / a ruleset is saved or revised
SaveRuleset(p, ruleset) ==
  /\ ScoreOf(p).pc = "idle"
  /\ fantasy' = [fantasy EXCEPT !.rulesets = upsertRuleset(@, ruleset)]
  /\ UNCHANGED <<procs, store, local, runs, calls, faults>>

\* the preset files by name; loadPresetRuleset throws for any other name
Presets ==
  [id \in {"standard"} |->
     [id |-> "standard", batting |-> << Rule("hits", 50, 0) >>,
      pitching |-> << Rule("hits_allowed", -50, 0) >>, bonuses |-> <<>>]]

\* variant: an unknown id is saved as an empty ruleset and scored with
getOrLoadRuleset_saveMissing(p, rulesetId) ==
  /\ ScoreOf(p).pc = "idle"
  /\ calls < MaxCalls
  /\ calls' = calls + 1
  /\ LET stored == rulesetId \in DOMAIN fantasy.rulesets
         preset == rulesetId \in DOMAIN Presets
         ruleset == IF stored THEN fantasy.rulesets[rulesetId]
                    ELSE IF preset THEN Presets[rulesetId]
                         ELSE [NoRuleset EXCEPT !.id = rulesetId]
     IN /\ fantasy' = IF ~stored
                      THEN [fantasy EXCEPT
                              !.rulesets = upsertRuleset(@, ruleset)]
                      ELSE fantasy
        /\ local' = [local EXCEPT ![p].score =
                       [@ EXCEPT !.pc = "loaded", !.error = NULL,
                                 !.requested = rulesetId,
                                 !.ruleset = ruleset,
                                 !.caller = NULL,
                                 !.queue = <<>>, !.inRange = <<>>]]
  /\ UNCHANGED <<procs, store, runs, faults>>

\* scoreCommand loads its ruleset: getRuleset, else the preset of that name,
\* which is saved; null when there is neither, and the command ends
getOrLoadRuleset(p, rulesetId) ==
  /\ ScoreOf(p).pc = "idle"
  /\ calls < MaxCalls
  /\ calls' = calls + 1
  /\ LET stored == rulesetId \in DOMAIN fantasy.rulesets
         preset == rulesetId \in DOMAIN Presets
         ruleset == IF stored THEN fantasy.rulesets[rulesetId]
                    ELSE IF preset THEN Presets[rulesetId] ELSE NoRuleset
     IN /\ fantasy' = IF ~stored /\ preset
                      THEN [fantasy EXCEPT
                              !.rulesets = upsertRuleset(@, ruleset)]
                      ELSE fantasy
        /\ local' = [local EXCEPT ![p].score =
                       [@ EXCEPT !.pc = IF stored \/ preset THEN "loaded"
                                        ELSE "idle",
                                 !.error = IF stored \/ preset THEN NULL
                                           ELSE "Ruleset not found",
                                 !.requested = rulesetId,
                                 !.ruleset = ruleset,
                                 !.caller = NULL,
                                 !.queue = <<>>, !.inRange = <<>>]]
  /\ UNCHANGED <<procs, store, runs, faults>>

\* scoreGamesForDateRange with the loaded ruleset: the games of the date
\* range in date order (games are dated in id order here)
scoreGamesForDateRange(p, selected, force) ==
  /\ ScoreOf(p).pc = "loaded"
  /\ local' = [local EXCEPT ![p].score =
                 [@ EXCEPT !.pc = "range", !.queue = selected,
                           !.inRange = selected, !.force = force,
                           !.gamesScored = 0]]
  /\ UNCHANGED <<procs, fantasy, store, runs, calls, faults>>

\* the head of the loop: return after the last game; without force a game
\* with any fantasy_game_points row of the ruleset is passed over
RangeNext(p) ==
  /\ ScoreOf(p).pc = "range"
  /\ LET L == ScoreOf(p)
         count == Cardinality(
                    { i \in 1..Len(fantasy.points) :
                        /\ fantasy.points[i].ruleset_id = L.ruleset.id
                        /\ fantasy.points[i].game_id = Head(L.queue) })
     IN local' = [local EXCEPT ![p].score =
                    IF L.queue = <<>>
                    THEN [@ EXCEPT !.pc = "idle", !.requested = NULL,
                                   !.inRange = <<>>, !.force = FALSE,
                                   !.gamesScored = 0, !.caller = NULL]
                    ELSE IF ~L.force /\ count > 0
                         THEN [@ EXCEPT !.queue = Tail(L.queue)]
                         ELSE [@ EXCEPT !.pc = "scoreGame"]]
  /\ UNCHANGED <<procs, fantasy, store, runs, calls, faults>>

\* the process is stopped, or a statement fails, inside scoreGame: what was
\* upserted so far stays (there is no transaction around the loops) and
\* the frames of the call are gone
Interrupt(p) ==
  /\ ScoreOf(p).pc \in {"getBatters", "batters", "getPitchers", "pitchers"}
  /\ faults < MaxFaults
  /\ faults' = faults + 1
  /\ local' = [local EXCEPT ![p].score =
                 [NoScore EXCEPT !.error = "interrupted",
                                 !.prev = ScoreOf(p).prev,
                                 !.computed = ScoreOf(p).computed]]
  /\ UNCHANGED <<procs, fantasy, store, runs, calls>>

\* scoreGame is called with a stored ruleset, or from the loop of
\* scoreGamesForDateRange with its ruleset and next game; getGame
ScoreGameBegin(p, rulesetId, gameId) ==
  /\ \/ ScoreOf(p).pc = "idle" /\ rulesetId \in DOMAIN fantasy.rulesets
     \/ /\ ScoreOf(p).pc = "scoreGame"
        /\ rulesetId = ScoreOf(p).ruleset.id
        /\ gameId = Head(ScoreOf(p).queue)
  /\ calls < MaxCalls
  /\ calls' = calls + 1
  /\ local' = [local EXCEPT ![p].score =
                 [@ EXCEPT !.pc = IF gameId \in DOMAIN games
                                  THEN "getBatters" ELSE "idle",
                           !.error = IF gameId \in DOMAIN games THEN NULL
                                     ELSE "Game not found",
                           !.ruleset = IF ScoreOf(p).pc = "idle"
                                       THEN fantasy.rulesets[rulesetId]
                                       ELSE @,
                           !.caller = IF ScoreOf(p).pc = "idle" THEN NULL
                                      ELSE "range",
                           !.requested = IF ScoreOf(p).pc = "idle" THEN NULL
                                         ELSE @,
                           !.gameId = gameId,
                           !.battingScores = 0, !.pitchingScores = 0,
                           !.batterStats = <<>>, !.pitcherStats = <<>>,
                           !.before = fantasy.points]]
  /\ UNCHANGED <<procs, fantasy, store, runs, faults>>

GetBatterStats(p) ==
  /\ ScoreOf(p).pc = "getBatters"
  /\ \E rows \in getStatsByGame(stats["batting"], ScoreOf(p).gameId) :
       local' = [local EXCEPT ![p].score =
                   [@ EXCEPT !.batterStats = rows,
                             !.pc = IF rows = <<>> THEN "getPitchers"
                                    ELSE "batters"]]
  /\ UNCHANGED <<procs, fantasy, store, runs, calls, faults>>

\* one round of a scoring loop: the row is scored and the result upserted
ScoreRow(p, d, row, rest, result) ==
  LET L == ScoreOf(p)
      points == [ruleset_id |-> L.ruleset.id, game_id |-> L.gameId,
                 player_id |-> row.player_id, stat_type |-> d,
                 total_points |-> result.totalPoints, nan |-> result.nan,
                 breakdown |-> result.breakdown]
      \* the foreign keys of a fantasy_game_points row
      ok == /\ points.ruleset_id \in DOMAIN fantasy.rulesets
            /\ points.game_id \in DOMAIN games
            /\ points.player_id \in players
      next == IF rest # <<>> THEN L.pc
              ELSE IF d = "batting" THEN "getPitchers" ELSE "return"
  IN /\ fantasy' = IF ok
                   THEN [fantasy EXCEPT !.points =
                           upsertFantasyGamePoints(@, points)]
                   ELSE fantasy
     /\ local' = [local EXCEPT ![p].score =
                    [@ EXCEPT !.pc = IF ok THEN next ELSE "idle",
                              !.error = IF ok THEN NULL
                                        ELSE "foreign key violation",
                              !.domain = d,
                              !.stats = RecordOf(d, row),
                              !.result = result,
                              !.batterStats = IF d = "batting" THEN rest
                                              ELSE @,
                              !.pitcherStats = IF d = "pitching" THEN rest
                                               ELSE @,
                              !.battingScores =
                                 IF ok /\ d = "batting" THEN @ + 1 ELSE @,
                              !.pitchingScores =
                                 IF ok /\ d = "pitching" THEN @ + 1 ELSE @,
                              !.computed =
                                 IF ok
                                 THEN [k \in DOMAIN L.computed
                                             \cup {PointsKey(points)} |->
                                         IF k = PointsKey(points)
                                         THEN result ELSE L.computed[k]]
                                 ELSE @]]
     /\ UNCHANGED <<procs, store, runs, calls, faults>>

ScoreBatter(p) ==
  /\ ScoreOf(p).pc = "batters"
  /\ ScoreRow(p, "batting", Head(ScoreOf(p).batterStats),
              Tail(ScoreOf(p).batterStats),
              calculateBattingPoints(
                RecordOf("batting", Head(ScoreOf(p).batterStats)),
                ScoreOf(p).ruleset))

GetPitcherStats(p) ==
  /\ ScoreOf(p).pc = "getPitchers"
  /\ \E rows \in getStatsByGame(stats["pitching"], ScoreOf(p).gameId) :
       local' = [local EXCEPT ![p].score =
                   [@ EXCEPT !.pitcherStats = rows,
                             !.pc = IF rows = <<>> THEN "return"
                                    ELSE "pitchers"]]
  /\ UNCHANGED <<procs, fantasy, store, runs, calls, faults>>

ScorePitcher(p) ==
  /\ ScoreOf(p).pc = "pitchers"
  /\ ScoreRow(p, "pitching", Head(ScoreOf(p).pitcherStats),
              Tail(ScoreOf(p).pitcherStats),
              calculatePitchingPoints(
                RecordOf("pitching", Head(ScoreOf(p).pitcherStats)),
                ScoreOf(p).ruleset))

ScoreGameReturn(p) ==
  /\ ScoreOf(p).pc = "return"
  /\ local' = [local EXCEPT ![p].score =
                 [@ EXCEPT !.pc = IF ScoreOf(p).caller = "range"
                                  THEN "range" ELSE "idle",
                           !.queue = IF ScoreOf(p).caller = "range"
                                     THEN Tail(@) ELSE @,
                           !.gamesScored = IF ScoreOf(p).caller = "range"
                                           THEN @ + 1 ELSE @,
                           !.prev = [ruleset |-> ScoreOf(p).ruleset,
                                     gameId |-> ScoreOf(p).gameId]]]
  /\ UNCHANGED <<procs, fantasy, store, runs, calls, faults>>

NextScore ==
  \E p \in procs :
     \/ \E r \in ScoreRulesets : SaveRuleset(p, r)
     \/ \E id \in {"standard", "custom", "nosuch"} : getOrLoadRuleset(p, id)
     \/ \E selected \in {<<"g1">>, <<"g1", "g2">>},
           force \in BOOLEAN :
          scoreGamesForDateRange(p, selected, force)
     \/ RangeNext(p)
     \/ Interrupt(p)
     \/ \E id \in {r.id : r \in ScoreRulesets}, g \in {"g1", "g2", "g9"} :
          ScoreGameBegin(p, id, g)
     \/ GetBatterStats(p)
     \/ ScoreBatter(p)
     \/ GetPitcherStats(p)
     \/ ScorePitcher(p)
     \/ ScoreGameReturn(p)

SpecScore == InitScore /\ [][NextScore]_vars

\* the rows of fantasy_game_points with the given key
RowsOfKey(k) ==
  {i \in 1..Len(fantasy.points) : PointsKey(fantasy.points[i]) = k}

\* the call of process p is about to return and the call before it scored
\* the same game with the same ruleset (the stat tables never change here)
ScoredAgain(p) ==
  /\ ScoreOf(p).pc = "return"
  /\ ScoreOf(p).prev = [ruleset |-> ScoreOf(p).ruleset,
                        gameId |-> ScoreOf(p).gameId]

\* C16: after any sequence of scoreGame calls fantasy_game_points holds
\* exactly one row for every scored (ruleset_id, game_id, player_id,
\* stat_type), whose total_points and breakdown are the result of the most
\* recent computation for that key; and scoring a game a second time with
\* unchanged stat records and ruleset leaves the stored totals and
\* breakdowns as they were.
C16_ScoringIdempotent ==
  \A p \in procs :
     /\ \A k \in DOMAIN ScoreOf(p).computed :
          /\ Cardinality(RowsOfKey(k)) = 1
          /\ \A i \in RowsOfKey(k) :
               /\ fantasy.points[i].total_points
                    = ScoreOf(p).computed[k].totalPoints
               /\ fantasy.points[i].breakdown
                    = ScoreOf(p).computed[k].breakdown
     /\ ScoredAgain(p) => fantasy.points = ScoreOf(p).before

C22_BonusDomainByStatName ==
  \A p \in procs :
     Calculated(p) =>
       LET R == ScoreOf(p).result
           bonuses == ScoreOf(p).ruleset.bonuses
           inTable(b, M) == \E i \in 1..Len(b.conditions) :
                              b.conditions[i].stat \in DOMAIN M
           relevant == SelectSeq(bonuses,
                                 LAMBDA b : inTable(b, DomainMapping(p)))
       IN /\ \A i \in 1..Len(bonuses) :
                ~inTable(bonuses[i], DomainMapping(p)) =>
                  /\ EntriesOf(R, "bonus:" \o bonuses[i].name) = {}
                  /\ \A j \in 1..Len(R.bonusesApplied) :
                        R.bonusesApplied[j] # bonuses[i].name
          /\ R = ScoringResult(ScoreOf(p).stats, DomainRules(p), relevant,
                               DomainMapping(p))
          /\ \A i \in 1..Len(bonuses) :
                (inTable(bonuses[i], BattingStatMapping)
                 /\ inTable(bonuses[i], PitchingStatMapping)) =>
                  (EntriesOf(R, "bonus:" \o bonuses[i].name) # {}
                     <=> Satisfied(p, bonuses[i]))

ParseOf(p) == local[p].parse

InitParse ==
  /\ procs = {1}
  /\ teams = {}
  /\ players = {}
  /\ games = <<>>
  /\ stats = [d \in DataType |-> <<>>]
  /\ staging = [d \in DataType |-> <<>>]
  /\ batches = <<>>
  /\ nextSerial = [d \in DataType |-> 1]
  /\ nextUuid = 1
  /\ runs = 0
  /\ calls = 0
  /\ faults = 0
  /\ fantasy = EmptyFantasy
  /\ LET Alphabet == {"1", "2", "x", " ", ",", "-", "y", "Y"}
         Words == { NullStr, <<"t","r","u","e">>, <<"T","R","U","E">>,
                    <<"T","r","u","e">>, <<"f","a","l","s","e">>,
                    <<"y","e","s">>, <<"0">>, <<"n">> }
     IN \E v \in UNION { [1..n -> Alphabet] : n \in 0..MaxLen } \cup Words :
          local = [p \in {1} |->
                     [LocalInit EXCEPT
                        !.parse = [@ EXCEPT !.pc = "parse", !.val = v]]]

\* transformBattingRow / transformPitchingRow convert a staged column
Convert(p) ==
  /\ ParseOf(p).pc = "parse"
  /\ ~ParseOf(p).converted
  /\ local' = [local EXCEPT ![p].parse =
                 [@ EXCEPT !.converted = TRUE,
                           !.num = parseNum(ParseOf(p).val),
                           !.bool = parseBool(ParseOf(p).val),
                           !.nullableNum = parseNullableNum(ParseOf(p).val),
                           !.nullableBool =
                              parseNullableBool(ParseOf(p).val)]]
  /\ UNCHANGED <<procs, fantasy, store, runs, calls, faults>>

\* the command line hands its year argument, a string, to parseYearRange
ParseYears(p) ==
  /\ ParseOf(p).pc = "parse"
  /\ ~ParseOf(p).ranged
  /\ ParseOf(p).val # NullStr
  /\ local' = [local EXCEPT ![p].parse =
                 [@ EXCEPT !.ranged = TRUE,
                           !.years = parseYearRange(ParseOf(p).val)]]
  /\ UNCHANGED <<procs, fantasy, store, runs, calls, faults>>

NextParse == \E p \in procs : Convert(p) \/ ParseYears(p)

SpecParse == InitParse /\ [][NextParse]_vars

\* the string is empty or missing (a blank string counts as empty)
Empty(val) == Falsy(val) \/ trim(val) = <<>>
\* the string is a decimal number: digits only, after an optional sign,
\* white space around it ignored
Numeric(val) ==
  LET t == trim(val)
      u == IF t # <<>> /\ Head(t) \in {"-", "+"} THEN Tail(t) ELSE t
  IN val # NullStr /\ u # <<>> /\ \A i \in 1..Len(u) : IsDigit(u[i])
\* the token is '1', 'true' or 'y', whatever its case
TrueToken(val) ==
  val # NullStr
  /\ toLowerCase(val) \in {<<"1">>, <<"t","r","u","e">>, <<"y">>}

\* C24: field conversion never fails and gives: 0 for a required integer
\* whose string is empty, missing or non-numeric; null for a nullable
\* integer whose string is empty; true for a boolean exactly when the token
\* is '1', 'true' or 'y' in any case; null for a nullable boolean of empty
\* input and the boolean rule otherwise.
C24_FieldConversion ==
  \A p \in procs :
    ParseOf(p).converted =>
      LET val == ParseOf(p).val
      IN /\ (Empty(val) \/ ~Numeric(val)) => ParseOf(p).num = 0
         /\ Empty(val) => ParseOf(p).nullableNum.null
         /\ ParseOf(p).bool = TrueToken(val)
         /\ IF Empty(val) THEN ParseOf(p).nullableBool.null
            ELSE /\ ~ParseOf(p).nullableBool.null
                 /\ ParseOf(p).nullableBool.b = TrueToken(val)

\* the years a comma-separated token names: itself when it is a number, the
\* years from start to end when it is start-end, none otherwise
NamedBy(token) ==
  LET t == trim(token)
      AllDigits(u) == u # <<>> /\ \A i \in 1..Len(u) : IsDigit(u[i])
      Hyphens == { i \in 1..Len(t) : t[i] = "-" }
  IN IF AllDigits(t) THEN {DigitPrefix(t, 0)}
     ELSE IF Cardinality(Hyphens) = 1
          THEN LET h == CHOOSE i \in Hyphens : TRUE
                   a == trim(SubSeq(t, 1, h - 1))
                   b == trim(SubSeq(t, h + 1, Len(t)))
               IN IF AllDigits(a) /\ AllDigits(b)
                  THEN DigitPrefix(a, 0)..DigitPrefix(b, 0)
                  ELSE {}
          ELSE {}

\* the comma-separated tokens of a string
Tokens(str) ==
  LET Commas == { i \in 1..Len(str) : str[i] = "," }
      Cuts == {0} \cup Commas \cup {Len(str) + 1}
  IN { SubSeq(str, i + 1, j - 1) :
         <<i, j>> \in { c \in Cuts \X Cuts :
                          /\ c[1] < c[2]
                          /\ \A k \in Cuts : ~(c[1] < k /\ k < c[2]) } }

\* C26: parseYearRange returns, strictly increasing and without duplicates,
\* exactly the years its comma-separated tokens name: the year of a numeric
\* token, every year from start to end of a start-end token, white space
\* around tokens ignored, nothing for a token that is not numeric, so that
\* empty or invalid input gives the empty list.
C26_ParseYearRange ==
  \A p \in procs :
    ParseOf(p).ranged =>
      LET years == ParseOf(p).years
      IN /\ \A i, j \in 1..Len(years) : i < j => years[i] < years[j]
         /\ { years[i] : i \in 1..Len(years) }
              = UNION { NamedBy(t) : t \in Tokens(ParseOf(p).val) }


\* C25: when a ruleset id is found neither in the store nor among the
\* presets, getOrLoadRuleset returns null without throwing and without
\* writing a ruleset, and no fantasy points are computed or written for that
\* request: the command ends there, and whatever is scored is scored with a
\* ruleset that was found.
C25_LookupMiss ==
  [][\A p \in procs :
       /\ ( /\ ScoreOf(p).pc = "idle"
            /\ calls' # calls
            /\ local'[p].score.requested # NULL
            /\ local'[p].score.requested
                 \notin DOMAIN fantasy.rulesets \cup DOMAIN Presets )
          => /\ local'[p].score.pc = "idle"
             /\ local'[p].score.error = "Ruleset not found"
             /\ local'[p].score.ruleset = NoRuleset
             /\ fantasy' = fantasy
             /\ local'[p].score.computed = ScoreOf(p).computed
       /\ local'[p].score.pc \notin {"idle"}
          => local'[p].score.ruleset.id \in DOMAIN fantasy'.rulesets]_vars

\* an unknown id was asked for while rulesets and points were stored
C25_Witness ==
  \E p \in procs :
     /\ ScoreOf(p).pc = "idle"
     /\ ScoreOf(p).requested = "nosuch"
     /\ ScoreOf(p).error = "Ruleset not found"
     /\ fantasy.rulesets # <<>>
     /\ fantasy.points # <<>>

\* C27: when scoreGamesForDateRange completes without force, every batter
\* and pitcher stat record of every game in the date range has a
\* fantasy_game_points row for the ruleset, also for games that were only
\* partially scored before (an earlier run interrupted inside scoreGame).
C27_RangeCoversAllRecords ==
  \A p \in procs :
     ( /\ ScoreOf(p).pc = "range"
       /\ ScoreOf(p).queue = <<>>
       /\ ~ScoreOf(p).force )
     => \A i \in 1..Len(ScoreOf(p).inRange), d \in DataType :
          \A k \in 1..Len(stats[d]) :
             stats[d][k].game_id = ScoreOf(p).inRange[i]
             => \E j \in 1..Len(fantasy.points) :
                   /\ fantasy.points[j].ruleset_id = ScoreOf(p).ruleset.id
                   /\ fantasy.points[j].game_id = stats[d][k].game_id
                   /\ fantasy.points[j].player_id = stats[d][k].player_id
                   /\ fantasy.points[j].stat_type = d


\* C28: the battingBatchId / pitchingBatchId recorded in ingestion_batches
\* and returned by ingestYear are the batch ids under which the run's
\* staging rows are stored, so that the rows a failed run leaves can be
\* found from its batch record.
C28_StagingUnderRecordedBatch ==
  \A d \in DataType : \A i \in 1..Len(staging[d]) :
     /\ staging[d][i].batch_id \in DOMAIN batches
     /\ batches[staging[d][i].batch_id].source_type = d

\* C29: once the staging writer has returned, each batch holds exactly as
\* many rows as the reported row count, the row_num values are 1..N without
\* gap or duplicate and follow the order of the source file, wherever the
\* write pages fall, and every row has processed = false.
C29_RowNumbers ==
  \A p \in procs :
    (local[p].ipc = "inProgressB" /\ local[p].spc = "idle") =>
      LET L == local[p]
          Check(d, b, n, indicator) ==
            LET staged == SelectSeq(staging[d], LAMBDA r : r.batch_id = b)
                source == SelectSeq(L.file, LAMBDA r : Active(r[indicator]))
            IN /\ Len(staged) = n
               /\ \A k \in 1..n :
                     Cardinality({ j \in 1..Len(staged) :
                                     staged[j].row_num = k }) = 1
               /\ \A j \in 1..Len(staged) :
                     /\ staged[j].row_num \in 1..n
                     /\ ~staged[j].processed
                     /\ staged[j].row_num <= Len(source)
                     /\ staged[j].player_id
                          = source[staged[j].row_num].person_key
      IN /\ Check("batting", L.sBattingBatchId, L.battingRows, "B_G")
         /\ Check("pitching", L.sPitchingBatchId, L.pitchingRows, "P_G")

\* a batch of three rows, more than one write page, was staged
C29_Witness ==
  \E p \in procs :
     /\ local[p].ipc = "inProgressB" /\ local[p].spc = "idle"
     /\ local[p].battingRows > BATCH_SIZE
     /\ local[p].pitchingRows = 1
     /\ \E i \in 1..Len(staging["batting"]) :
          staging["batting"][i].row_num = local[p].battingRows


\* C23: upserting a team id or player id that already exists leaves the
\* existing row as it is (a row is its id here; name columns are written by
\* no upsert), and upserting an id that does not exist adds exactly one row
\* for it; nothing else is added.
C23_InsertIfAbsent ==
  [][\A p \in procs :
       /\ (local[p].tpc = "teams" /\ local'[p].tpc = "players")
          => /\ teams \subseteq teams'
             /\ teams' \ teams = local[p].tteams \ teams
       /\ (local[p].tpc = "players" /\ local'[p].tpc \in {"games", "stats"})
          => /\ players \subseteq players'
             /\ players' \ players = local[p].tplayers \ players]_vars

=============================================================================
